---- MODULE Spec2Model ----
(***************************************************************************)
(* A model of the blockchain node of egaoneko/blockchain-study: the chain  *)
(* engine (block.rs), the transaction engine (transaction.rs), the wallet  *)
(* (wallet.rs), the mempool (transaction_pool.rs), the HTTP handlers       *)
(* (routes.rs) and the peer readers (socket.rs).                           *)
(*                                                                         *)
(* Text.  A Rust String is a sequence of tokens.  A token is a tuple:      *)
(*   <<d>>            one decimal digit character, d \in 0..9              *)
(*   <<"sha", s>>     the 64 hex characters of SHA-256 of the text s       *)
(*   <<"pub", k>>     the 66 hex characters of the public key of secret k  *)
(*   <<"sig", k, m>>  the DER hex of the ECDSA signature of key k over m   *)
(*   <<"json", v>>    the serde_json text of the value v                   *)
(* SHA-256 and serde_json are injective on the inputs of the model, so a   *)
(* digest or a JSON text is one token that carries its preimage; format!   *)
(* is concatenation, token by token, and it is NOT injective.              *)
(*                                                                         *)
(* Integers.  usize is 64 bits wide.  TLC's integers are 32 bits wide, so  *)
(* an amount k * 2^63 + r (k \in 0..1, r < U64Half) is held as the number  *)
(* k * U64Half + r: addition, comparison and the wrap at 2^64 = U64Mod are *)
(* exact on these.  Arithmetic that overflows panics when the build has    *)
(* overflow checks (debug) and wraps when it has not (release); the state  *)
(* variable overflow_checks says which build runs.                         *)
(***************************************************************************)
EXTENDS Integers, Sequences, FiniteSets, TLC

\* ------------------------------------------------------------------ bounds
MaxZeroBits == 2        \* SHA-256 model: a digest has 0..MaxZeroBits leading zero bits
MaxChainLen == 3        \* local appends stop at this chain length
MaxEvents == 1          \* handlers wait while the broadcast channel holds this many events
MaxPool == 2            \* mempool admissions stop at this pool length
MaxOrigins == 1         \* the network serves this many mine-block and send-transaction requests
MaxDials == 2           \* /add-peer is served this many times
MaxQueue == 2           \* connection tasks and /add-peer wait while the channel holds this many events

\* ------------------------------------------------------- program constants
BLOCK_GENERATION_INTERVAL == 10
DIFFICULTY_ADJUSTMENT_INTERVAL == 10
TIMESTAMP_INTERVAL == 60
COINBASE_AMOUNT == 50
GenesisTimestamp == 1655831820

U64Half == 2 ^ 20                 \* stands for 2^63, see the header
U64Mod == 2 * U64Half             \* stands for 2^64
MaxI32 == (2 ^ 30 - 1) + 2 ^ 30   \* i32::MAX
MinI32 == (0 - MaxI32) - 1        \* i32::MIN

\* ----------------------------------------------------- outcomes of a call
\* A call either returns a value or panics (unwinds).
Ok(v) == [panic |-> FALSE, val |-> v]
PanicB == [panic |-> TRUE, val |-> FALSE]
PanicN == [panic |-> TRUE, val |-> 0]
\* Result<T, AppError>: err = 0 is Ok(val), err = code is Err(AppError::new(code)).
ROk(v) == [panic |-> FALSE, err |-> 0, val |-> v]
RErr(code) == [panic |-> FALSE, err |-> code, val |-> <<>>]
RPanic == [panic |-> TRUE, err |-> 0, val |-> <<>>]

\* --------------------------------------------------------------------- text
Digit(d) == <<d>>

\* format!("{}", n) of a usize index, timestamp, difficulty or nonce.
RECURSIVE Dec(_)
Dec(n) == IF n < 10 THEN <<Digit(n)>> ELSE Dec(n \div 10) \o <<Digit(n % 10)>>

\* format!("{}", amount): 2^63 + r is 9223372036854775808 + r (r < 192).
DecAmount(a) ==
    IF a < U64Half THEN Dec(a)
    ELSE <<Digit(9), Digit(2), Digit(2), Digit(3), Digit(3), Digit(7), Digit(2), Digit(0),
           Digit(3), Digit(6), Digit(8), Digit(5), Digit(4), Digit(7), Digit(7), Digit(5)>>
         \o Dec(808 + (a - U64Half))

\* Sha256::new().update(s).finalize() formatted with {:x}.
Sha256(s) == << <<"sha", s>> >>

\* serde_json::to_string(&data)
Json(data) == << <<"json", data>> >>

IsDigitToken(t) == Len(t) = 1
IsShaToken(t) == Len(t) = 2 /\ t[1] = "sha"
IsPubToken(t) == Len(t) = 2 /\ t[1] = "pub"
IsSigToken(t) == Len(t) = 3 /\ t[1] = "sig"

RECURSIVE DigitSum(_)
DigitSum(s) ==
    IF s = <<>> THEN 0
    ELSE (IF IsDigitToken(Head(s)) THEN Head(s)[1] ELSE 0) + DigitSum(Tail(s))

\* The number of leading zero bits of a SHA-256 digest: a fixed function of
\* the hashed text that moves with every digit of it (so with the nonce).
ShaZeroBits(t) == DigitSum(t[2]) % (MaxZeroBits + 1)

\* utils.rs to_binary: the zero bits a hex digit starts with (4: all zero).
to_binary_zeros(d) ==
    IF d = 0 THEN 4 ELSE IF d = 1 THEN 3 ELSE IF d < 4 THEN 2 ELSE IF d < 8 THEN 1 ELSE 0

\* The length of the prefix of zeros of convert_to_binary_from_hex(hash).
RECURSIVE convert_to_binary_from_hex(_)
convert_to_binary_from_hex(hex) ==
    IF hex = <<>> THEN 0
    ELSE LET t == Head(hex) IN
         IF IsDigitToken(t)
         THEN IF t[1] = 0 THEN 4 + convert_to_binary_from_hex(Tail(hex))
              ELSE to_binary_zeros(t[1])
         ELSE IF IsShaToken(t) THEN ShaZeroBits(t)
         ELSE 0

get_is_hash_matches_difficulty(hash, difficulty) ==
    convert_to_binary_from_hex(hash) >= difficulty

\* ------------------------------------------------------------------- keys
\* get_public_key(private_key): the secret key k is the text <<"sec", k>>.
get_public_key(k) == << <<"pub", k>> >>

\* PublicKey::from_str, Signature::from_str and message_from_str succeed on
\* well-formed text only; the callers unwrap the result.
IsPublicKey(s) == Len(s) = 1 /\ IsPubToken(s[1])
IsSignature(s) == Len(s) = 1 /\ IsSigToken(s[1])
IsMessage(s) == Len(s) = 1 /\ IsShaToken(s[1])

\* secp.sign_ecdsa(message, secret_key).to_string()
sign_ecdsa(message, k) == << <<"sig", k, message>> >>

\* secp.verify_ecdsa(message, sig, public_key).is_ok()
verify_ecdsa(message, sig, public_key) ==
    /\ sig[1][3] = message
    /\ public_key[1][2] = sig[1][2]

\* --------------------------------------------------------- usize arithmetic
\* a + b on usize.
AddUsize(a, b, oc) ==
    IF a + b < U64Mod THEN Ok(a + b)
    ELSE IF oc THEN PanicN ELSE Ok((a + b) % U64Mod)

\* .fold(0, |sum, amount| sum + amount) over a sequence of amounts.
RECURSIVE SumUsize(_, _, _)
SumUsize(amounts, acc, oc) ==
    IF amounts = <<>> THEN Ok(acc)
    ELSE LET r == AddUsize(acc, Head(amounts), oc) IN
         IF r.panic THEN PanicN ELSE SumUsize(Tail(amounts), r.val, oc)

\* a - b < c on usize: a wrapped difference is at least 2^64 - b, above
\* every c the model holds.
SubLess(a, b, c, oc) ==
    IF a >= b THEN Ok(a - b < c)
    ELSE IF oc THEN PanicB ELSE Ok(FALSE)

Min(S) == CHOOSE x \in S : \A y \in S : x <= y

\* ------------------------------------------------------ transaction.rs
TxIn(tx_out_id, tx_out_index, signature) ==
    [tx_out_id |-> tx_out_id, tx_out_index |-> tx_out_index, signature |-> signature]

TxOut(address, amount) == [address |-> address, amount |-> amount]

UnspentTxOut(tx_out_id, tx_out_index, address, amount) ==
    [tx_out_id |-> tx_out_id, tx_out_index |-> tx_out_index,
     address |-> address, amount |-> amount]

\* Transaction::new
Transaction(id, tx_ins, tx_outs) == [id |-> id, tx_ins |-> tx_ins, tx_outs |-> tx_outs]

RECURSIVE tx_in_content(_)
tx_in_content(tx_ins) ==
    IF tx_ins = <<>> THEN <<>>
    ELSE Head(tx_ins).tx_out_id \o Dec(Head(tx_ins).tx_out_index)
         \o tx_in_content(Tail(tx_ins))

RECURSIVE tx_out_content(_)
tx_out_content(tx_outs) ==
    IF tx_outs = <<>> THEN <<>>
    ELSE Head(tx_outs).address \o DecAmount(Head(tx_outs).amount)
         \o tx_out_content(Tail(tx_outs))

\* An id that also covers the signatures of the inputs.
get_transaction_id_of_signed(tx_ins, tx_outs) ==
    Sha256(tx_in_content(tx_ins) \o tx_out_content(tx_outs)
           \o [i \in 1..Len(tx_ins) |-> tx_ins[i].signature])

get_transaction_id(tx_ins, tx_outs) ==
    Sha256(tx_in_content(tx_ins) \o tx_out_content(tx_outs))

\* Transaction::generate
Transaction_generate(tx_ins, tx_outs) ==
    Transaction(get_transaction_id(tx_ins, tx_outs), tx_ins, tx_outs)

\* The first entry with the input's tx_out_id (the index is not compared)
\* gives the key the signature is verified under.
get_is_valid_tx_in(tx_in, transaction, unspent_tx_outs) ==
    LET found == {i \in 1..Len(unspent_tx_outs) :
                     unspent_tx_outs[i].tx_out_id = tx_in.tx_out_id}
    IN  IF found = {} THEN Ok(FALSE)
        ELSE LET referenced_utx_out == unspent_tx_outs[Min(found)] IN
             IF ~IsPublicKey(referenced_utx_out.address) THEN PanicB
             ELSE IF ~IsMessage(transaction.id) THEN PanicB
             ELSE IF ~IsSignature(tx_in.signature) THEN PanicB
             ELSE Ok(verify_ecdsa(transaction.id, tx_in.signature,
                                  referenced_utx_out.address))

\* Option<&UnspentTxOut> as a sequence of at most one entry.
find_unspent_tx_out(transaction_id, index, unspent_tx_outs) ==
    LET found == {i \in 1..Len(unspent_tx_outs) :
                     /\ unspent_tx_outs[i].tx_out_id = transaction_id
                     /\ unspent_tx_outs[i].tx_out_index = index}
    IN  IF found = {} THEN <<>> ELSE <<unspent_tx_outs[Min(found)]>>

get_tx_in_amount(tx_in, unspent_tx_outs) ==
    LET u_tx_o == find_unspent_tx_out(tx_in.tx_out_id, tx_in.tx_out_index, unspent_tx_outs)
    IN  IF u_tx_o # <<>> THEN u_tx_o[1].amount ELSE 0

\* ref_tx_ins.any(|tx_in| !get_is_valid_tx_in(..)), in order, lazily.
RECURSIVE has_invalid_tx_ins(_, _, _)
has_invalid_tx_ins(tx_ins, transaction, unspent_tx_outs) ==
    LET rest(valid) ==
            IF valid.panic THEN PanicB
            ELSE IF ~valid.val THEN Ok(TRUE)
            ELSE has_invalid_tx_ins(Tail(tx_ins), transaction, unspent_tx_outs)
    IN  IF tx_ins = <<>> THEN Ok(FALSE)
        ELSE rest(get_is_valid_tx_in(Head(tx_ins), transaction, unspent_tx_outs))

get_is_valid_transaction(transaction, unspent_tx_outs, oc) ==
    LET compare(total_tx_in_values, total_tx_out_values) ==
            IF total_tx_in_values.panic THEN PanicB
            ELSE IF total_tx_out_values.panic THEN PanicB
            ELSE Ok(total_tx_out_values.val = total_tx_in_values.val)
        totals(has_invalid) ==
            IF has_invalid.panic THEN PanicB
            ELSE IF has_invalid.val THEN Ok(FALSE)
            ELSE compare(SumUsize([i \in 1..Len(transaction.tx_ins) |->
                                      get_tx_in_amount(transaction.tx_ins[i], unspent_tx_outs)],
                                  0, oc),
                         SumUsize([i \in 1..Len(transaction.tx_outs) |->
                                      transaction.tx_outs[i].amount], 0, oc))
    IN  IF get_transaction_id(transaction.tx_ins, transaction.tx_outs) # transaction.id
        THEN Ok(FALSE)
        ELSE totals(has_invalid_tx_ins(transaction.tx_ins, transaction, unspent_tx_outs))

\* transaction: Option<&Transaction> as a sequence of at most one transaction.
get_is_valid_coinbase_tx(transaction, block_index) ==
    IF transaction = <<>> THEN FALSE
    ELSE LET tx == transaction[1] IN
         IF get_transaction_id(tx.tx_ins, tx.tx_outs) # tx.id THEN FALSE
         ELSE IF Len(tx.tx_ins) # 1 THEN FALSE
         ELSE IF tx.tx_ins[1].tx_out_index # block_index THEN FALSE
         ELSE IF Len(tx.tx_outs) # 1 THEN FALSE
         ELSE IF tx.tx_outs[1].amount # COINBASE_AMOUNT THEN FALSE
         ELSE TRUE

\* The HashMap key of an input: format!("{}{}", tx_out_id, tx_out_index).
duplicates_key(tx_in) == tx_in.tx_out_id \o Dec(tx_in.tx_out_index)

has_duplicates(tx_ins) ==
    \E i, j \in 1..Len(tx_ins) :
        i < j /\ duplicates_key(tx_ins[i]) = duplicates_key(tx_ins[j])

\* transactions.into_iter().map(|tx| &tx.tx_ins).flatten().collect()
RECURSIVE flatten_tx_ins(_)
flatten_tx_ins(transactions) ==
    IF transactions = <<>> THEN <<>>
    ELSE Head(transactions).tx_ins \o flatten_tx_ins(Tail(transactions))

\* .map(|tx| get_is_valid_transaction(..)).all(|valid| valid), in order, lazily.
RECURSIVE all_valid_transactions(_, _, _)
all_valid_transactions(transactions, unspent_tx_outs, oc) ==
    LET rest(valid) ==
            IF valid.panic THEN PanicB
            ELSE IF ~valid.val THEN Ok(FALSE)
            ELSE all_valid_transactions(Tail(transactions), unspent_tx_outs, oc)
    IN  IF transactions = <<>> THEN Ok(TRUE)
        ELSE rest(get_is_valid_transaction(Head(transactions), unspent_tx_outs, oc))

get_is_valid_block_transactions(transactions, unspent_tx_outs, block_index, oc) ==
    LET coinbase_tx == IF transactions = <<>> THEN <<>> ELSE <<transactions[1]>> IN
    IF ~get_is_valid_coinbase_tx(coinbase_tx, block_index) THEN Ok(FALSE)
    ELSE IF has_duplicates(flatten_tx_ins(transactions)) THEN Ok(FALSE)
    ELSE all_valid_transactions(Tail(transactions), unspent_tx_outs, oc)

RECURSIVE new_unspent_tx_outs(_)
new_unspent_tx_outs(new_transactions) ==
    IF new_transactions = <<>> THEN <<>>
    ELSE LET t == Head(new_transactions) IN
         [i \in 1..Len(t.tx_outs) |->
             UnspentTxOut(t.id, i - 1, t.tx_outs[i].address, t.tx_outs[i].amount)]
         \o new_unspent_tx_outs(Tail(new_transactions))

\* An update that adds the new outputs and removes none of the consumed ones.
update_unspent_tx_outs_keep_consumed(new_transactions, unspent_tx_outs) ==
    unspent_tx_outs \o new_unspent_tx_outs(new_transactions)

update_unspent_tx_outs(new_transactions, unspent_tx_outs) ==
    LET ins == flatten_tx_ins(new_transactions)
        consumed_tx_outs == [i \in 1..Len(ins) |->
            UnspentTxOut(ins[i].tx_out_id, ins[i].tx_out_index, <<>>, 0)]
    IN  SelectSeq(unspent_tx_outs,
                  LAMBDA u_tx_o : find_unspent_tx_out(u_tx_o.tx_out_id, u_tx_o.tx_out_index,
                                                     consumed_tx_outs) = <<>>)
        \o new_unspent_tx_outs(new_transactions)

\* The body of process_transactions is not among the source files: it is
\* modelled from the spec's apply_block (validate the block's transactions,
\* then update the unspent outputs) with error 2001 of errors.rs.
process_transactions(transactions, unspent_tx_outs, block_index, oc) ==
    LET update(valid) ==
            IF valid.panic THEN RPanic
            ELSE IF ~valid.val THEN RErr(2001)
            ELSE ROk(update_unspent_tx_outs(transactions, unspent_tx_outs))
    IN  update(get_is_valid_block_transactions(transactions, unspent_tx_outs,
                                               block_index, oc))

get_coinbase_transaction(address, block_index) ==
    Transaction_generate(<<TxIn(<<>>, block_index, <<>>)>>,
                         <<TxOut(address, COINBASE_AMOUNT)>>)

\* sign_tx_in(transaction, tx_in_index, private_key, unspent_tx_outs)
sign_tx_in(transaction, tx_in_index, private_key, unspent_tx_outs) ==
    LET sign(referenced_unspent_tx_out) ==
            IF referenced_unspent_tx_out = <<>> THEN RErr(2000)
            ELSE IF get_public_key(private_key) # referenced_unspent_tx_out[1].address
            THEN RErr(2000)
            ELSE IF ~IsMessage(transaction.id) THEN RPanic
            ELSE ROk(sign_ecdsa(transaction.id, private_key))
    IN  sign(find_unspent_tx_out(transaction.tx_ins[tx_in_index].tx_out_id,
                                 transaction.tx_ins[tx_in_index].tx_out_index,
                                 unspent_tx_outs))

\* --------------------------------------------------------------- block.rs
\* Block::new
Block(index, hash, previous_hash, timestamp, data, difficulty, nonce) ==
    [index |-> index, hash |-> hash, previous_hash |-> previous_hash,
     timestamp |-> timestamp, data |-> data, difficulty |-> difficulty, nonce |-> nonce]

calculate_hash(index, previous_hash, timestamp, data, difficulty, nonce) ==
    Sha256(Dec(index) \o previous_hash \o Dec(timestamp) \o Json(data)
           \o Dec(difficulty) \o Dec(nonce))

\* The nonces the loop of Block::generate tries before it returns n.
NoncesBelow(n) == 0..(n - 1)

\* Block::generate with timestamp = now: the first nonce, counting up from 0,
\* whose hash matches the difficulty.  The loop has no upper bound: with no
\* such nonce (difficulty above what a digest can show) it never returns.
CanGenerate(difficulty) == difficulty <= MaxZeroBits

\* A generate that returns at nonce 0 without looking at the hash.
Block_generate_at_nonce_zero(data, previous, difficulty, now_) ==
    Block(previous.index + 1,
          calculate_hash(previous.index + 1, previous.hash, now_, data, difficulty, 0),
          previous.hash, now_, data, difficulty, 0)

Block_generate(data, previous, difficulty, now_) ==
    LET matches(n) ==
            get_is_hash_matches_difficulty(
                calculate_hash(previous.index + 1, previous.hash, now_, data, difficulty, n),
                difficulty)
        mined(nonce) ==
            Block(previous.index + 1,
                  calculate_hash(previous.index + 1, previous.hash, now_, data, difficulty,
                                 nonce),
                  previous.hash, now_, data, difficulty, nonce)
    IN  mined(CHOOSE n \in 0..MaxZeroBits :
                 matches(n) /\ \A m \in NoncesBelow(n) : ~matches(m))

\* Block::get_calculated_hash
get_calculated_hash(b) ==
    calculate_hash(b.index, b.previous_hash, b.timestamp, b.data, b.difficulty, b.nonce)

\* Block::get_is_valid_structure
get_is_valid_structure(b) == b.hash # <<>> /\ b.previous_hash # <<>>

\* Block::get_is_valid_hash
get_is_valid_hash(b) ==
    IF get_calculated_hash(b) # b.hash THEN FALSE
    ELSE IF ~get_is_hash_matches_difficulty(b.hash, b.difficulty) THEN FALSE
    ELSE TRUE

\* impl PartialEq for Block: difficulty and nonce are not compared.
Block_eq(a, b) ==
    /\ a.index = b.index
    /\ a.hash = b.hash
    /\ a.previous_hash = b.previous_hash
    /\ a.timestamp = b.timestamp
    /\ a.data = b.data

\* previous.timestamp - 60 < new.timestamp && new.timestamp - 60 < now
get_is_valid_timestamp(new_block, previous_block, now_, oc) ==
    LET right(left) ==
            IF left.panic THEN PanicB
            ELSE IF ~left.val THEN Ok(FALSE)
            ELSE SubLess(new_block.timestamp, TIMESTAMP_INTERVAL, now_, oc)
    IN  right(SubLess(previous_block.timestamp, TIMESTAMP_INTERVAL,
                      new_block.timestamp, oc))

get_is_valid_new_block(new_block, previous_block, now_, oc) ==
    LET hash(valid_timestamp) ==
            IF valid_timestamp.panic THEN PanicB
            ELSE IF ~valid_timestamp.val THEN Ok(FALSE)
            ELSE IF ~get_is_valid_hash(new_block) THEN Ok(FALSE)
            ELSE Ok(TRUE)
    IN  IF ~get_is_valid_structure(new_block) THEN Ok(FALSE)
        ELSE IF previous_block.index + 1 # new_block.index THEN Ok(FALSE)
        ELSE IF previous_block.hash # new_block.previous_hash THEN Ok(FALSE)
        ELSE hash(get_is_valid_timestamp(new_block, previous_block, now_, oc))

\* blockchain.windows(2).all(..), in order, lazily, from window i on.
RECURSIVE all_windows_valid(_, _, _, _)
all_windows_valid(blockchain, i, now_, oc) ==
    LET rest(valid) ==
            IF valid.panic THEN PanicB
            ELSE IF ~valid.val THEN Ok(FALSE)
            ELSE all_windows_valid(blockchain, i + 1, now_, oc)
    IN  IF i >= Len(blockchain) THEN Ok(TRUE)
        ELSE rest(get_is_valid_new_block(blockchain[i + 1], blockchain[i], now_, oc))

get_is_valid_chain(genesis_block, blockchain, now_, oc) ==
    IF blockchain = <<>> THEN Ok(FALSE)
    ELSE IF ~Block_eq(genesis_block, blockchain[1]) THEN Ok(FALSE)
    ELSE IF Len(blockchain) = 1 THEN Ok(TRUE)
    ELSE all_windows_valid(blockchain, 1, now_, oc)

\* a + b on i32.
AddI32(a, b, oc) ==
    IF a > 0 /\ b > 0 /\ a > MaxI32 - b
    THEN IF oc THEN PanicN ELSE Ok(((a - MaxI32) - 1) + ((b - MaxI32) - 1))
    ELSE IF a < 0 /\ b < 0 /\ a < MinI32 - b
    THEN IF oc THEN PanicN ELSE Ok(((a + MaxI32) + 1) + ((b + MaxI32) + 1))
    ELSE Ok(a + b)

\* 2_i32.pow(difficulty as u32)
Pow2I32(difficulty, oc) ==
    IF difficulty <= 30 THEN Ok(2 ^ difficulty)
    ELSE IF oc THEN PanicN
    ELSE IF difficulty = 31 THEN Ok(MinI32)
    ELSE Ok(0)

RECURSIVE fold_accumulated_difficulty(_, _, _)
fold_accumulated_difficulty(blockchain, total, oc) ==
    LET rest(sum) ==
            IF sum.panic THEN PanicN
            ELSE fold_accumulated_difficulty(Tail(blockchain), sum.val, oc)
        add(power) ==
            IF power.panic THEN PanicN ELSE rest(AddI32(total, power.val, oc))
    IN  IF blockchain = <<>> THEN Ok(total)
        ELSE add(Pow2I32(Head(blockchain).difficulty, oc))

get_accumulated_difficulty(blockchain, oc) ==
    fold_accumulated_difficulty(blockchain, 0, oc)

get_latest_block(blockchain) == blockchain[Len(blockchain)]

\* A comparison that also replaces on equal accumulated difficulty.
get_is_replace_chain_on_equal(blockchain, new_blockchain, now_, oc) ==
    LET compare(valid, mine, theirs) ==
            IF valid.panic \/ mine.panic \/ theirs.panic THEN PanicB
            ELSE Ok(valid.val /\ mine.val <= theirs.val)
    IN  compare(get_is_valid_chain(blockchain[1], new_blockchain, now_, oc),
                get_accumulated_difficulty(blockchain, oc),
                get_accumulated_difficulty(new_blockchain, oc))

\* get_is_valid_chain(..) && get_accumulated_difficulty(a) < get_accumulated_difficulty(b)
get_is_replace_chain(blockchain, new_blockchain, now_, oc) ==
    LET less(mine, theirs) ==
            IF mine.panic \/ theirs.panic THEN PanicB ELSE Ok(mine.val < theirs.val)
        compare(valid) ==
            IF valid.panic THEN PanicB
            ELSE IF ~valid.val THEN Ok(FALSE)
            ELSE less(get_accumulated_difficulty(blockchain, oc),
                      get_accumulated_difficulty(new_blockchain, oc))
    IN  compare(get_is_valid_chain(blockchain[1], new_blockchain, now_, oc))

\* a - b on usize.
SubUsize(a, b, oc) ==
    IF a >= b THEN Ok(a - b)
    ELSE IF oc THEN PanicN ELSE Ok(U64Mod - (b - a))

get_difficulty(blockchain, oc) ==
    LET latest_block == get_latest_block(blockchain)
        time_expected == BLOCK_GENERATION_INTERVAL * DIFFICULTY_ADJUSTMENT_INTERVAL
        adjust(prev_adjustment_block, time_taken) ==
            IF time_taken.panic THEN PanicN
            ELSE IF time_taken.val < time_expected \div 2
            THEN Ok(prev_adjustment_block.difficulty + 1)
            ELSE IF time_taken.val > time_expected * 2
            THEN SubUsize(prev_adjustment_block.difficulty, 1, oc)
            ELSE Ok(prev_adjustment_block.difficulty)
        from(prev_adjustment_block) ==
            adjust(prev_adjustment_block,
                   SubUsize(latest_block.timestamp, prev_adjustment_block.timestamp, oc))
    IN  IF (latest_block.index % DIFFICULTY_ADJUSTMENT_INTERVAL) # 0 \/ latest_block.index = 0
        THEN Ok(latest_block.difficulty)
        ELSE IF Len(blockchain) < DIFFICULTY_ADJUSTMENT_INTERVAL THEN PanicN
        ELSE from(blockchain[(Len(blockchain) - DIFFICULTY_ADJUSTMENT_INTERVAL) + 1])

\* process_transactions(..).unwrap() block by block, from the empty set.
RECURSIVE fold_unspent_tx_outs(_, _, _)
fold_unspent_tx_outs(blocks, unspent_tx_outs, oc) ==
    LET rest(processed) ==
            IF processed.panic \/ processed.err # 0 THEN RPanic
            ELSE fold_unspent_tx_outs(Tail(blocks), processed.val, oc)
    IN  IF blocks = <<>> THEN ROk(unspent_tx_outs)
        ELSE rest(process_transactions(Head(blocks).data, unspent_tx_outs,
                                       Head(blocks).index, oc))

get_unspent_tx_outs(blockchain, oc) == fold_unspent_tx_outs(blockchain, <<>>, oc)

\* ------------------------------------------------------ transaction_pool.rs
get_tx_pool_ins(transaction_pool) == flatten_tx_ins(transaction_pool)

contains_tx_in(tx_pool_ins, tx_in) ==
    \E i \in 1..Len(tx_pool_ins) :
        /\ tx_pool_ins[i].tx_out_index = tx_in.tx_out_index
        /\ tx_pool_ins[i].tx_out_id = tx_in.tx_out_id

get_is_valid_tx_for_pool(tx, transaction_pool) ==
    LET tx_pool_ins == get_tx_pool_ins(transaction_pool) IN
    \A i \in 1..Len(tx.tx_ins) : ~contains_tx_in(tx_pool_ins, tx.tx_ins[i])

has_tx_in(tx_in, unspent_tx_outs) ==
    \E i \in 1..Len(unspent_tx_outs) :
        /\ unspent_tx_outs[i].tx_out_id = tx_in.tx_out_id
        /\ unspent_tx_outs[i].tx_out_index = tx_in.tx_out_index

\* Result<(), AppError> with the pool the call leaves behind.
add_to_transaction_pool(tx, transaction_pool, unspent_tx_outs, oc) ==
    LET push(valid) ==
            IF valid.panic THEN [panic |-> TRUE, err |-> 0, pool |-> transaction_pool]
            ELSE IF ~valid.val THEN [panic |-> FALSE, err |-> 4000, pool |-> transaction_pool]
            ELSE IF ~get_is_valid_tx_for_pool(tx, transaction_pool)
            THEN [panic |-> FALSE, err |-> 4001, pool |-> transaction_pool]
            ELSE [panic |-> FALSE, err |-> 0, pool |-> Append(transaction_pool, tx)]
    IN  push(get_is_valid_transaction(tx, unspent_tx_outs, oc))

\* x.eq(tx) on transactions: equal in id, inputs and outputs.
Transaction_eq(a, b) == a.id = b.id /\ a.tx_ins = b.tx_ins /\ a.tx_outs = b.tx_outs

\* A reconciliation that removes nothing.
update_transaction_pool_keep_all(transaction_pool, unspent_tx_outs) == transaction_pool

update_transaction_pool(transaction_pool, unspent_tx_outs) ==
    LET is_invalid(tx) == \E i \in 1..Len(tx.tx_ins) : ~has_tx_in(tx.tx_ins[i], unspent_tx_outs)
        invalid_txs == SelectSeq(transaction_pool, is_invalid)
    IN  IF Len(invalid_txs) = 0 THEN transaction_pool
        ELSE SelectSeq(transaction_pool,
                       LAMBDA tx : \A i \in 1..Len(invalid_txs) :
                                       ~Transaction_eq(invalid_txs[i], tx))

\* ---------------------------------------------------------------- wallet.rs
\* Wallet: the key pair read from the private key file.
Wallet(private_key) == [private_key |-> private_key, public_key |-> get_public_key(private_key)]

find_unspent_tx_outs(address, unspent_tx_outs) ==
    SelectSeq(unspent_tx_outs, LAMBDA u_tx_o : u_tx_o.address = address)

get_balance(address, unspent_tx_outs, oc) ==
    LET mine == find_unspent_tx_outs(address, unspent_tx_outs) IN
    SumUsize([i \in 1..Len(mine) |-> mine[i].amount], 0, oc)

\* The loop over my_unspent_tx_outs from entry i on; val is
\* <<included_unspent_tx_outs, left_over_amount>>.
RECURSIVE find_tx_outs_for_amount_from(_, _, _, _, _)
find_tx_outs_for_amount_from(my_unspent_tx_outs, i, current_amount, amount, oc) ==
    LET rest(sum) ==
            IF sum.panic THEN RPanic
            ELSE IF sum.val >= amount
            THEN ROk(<<SubSeq(my_unspent_tx_outs, 1, i), sum.val - amount>>)
            ELSE find_tx_outs_for_amount_from(my_unspent_tx_outs, i + 1, sum.val, amount, oc)
    IN  IF i > Len(my_unspent_tx_outs) THEN RErr(2003)
        ELSE rest(AddUsize(current_amount, my_unspent_tx_outs[i].amount, oc))

find_tx_outs_for_amount(my_unspent_tx_outs, amount, oc) ==
    find_tx_outs_for_amount_from(my_unspent_tx_outs, 1, 0, amount, oc)

create_tx_outs(receiver_address, my_address, amount, left_over_amount) ==
    IF left_over_amount = 0 THEN <<TxOut(receiver_address, amount)>>
    ELSE <<TxOut(receiver_address, amount), TxOut(my_address, left_over_amount)>>

create_transaction(receiver_address, amount, wallet, unspent_tx_outs, oc) ==
    LET my_address == wallet.public_key
        signed(tx, signatures) ==
            IF \E i \in 1..Len(signatures) : signatures[i].panic \/ signatures[i].err # 0
            THEN RPanic
            ELSE ROk(Transaction(tx.id,
                                 [i \in 1..Len(tx.tx_ins) |->
                                     TxIn(tx.tx_ins[i].tx_out_id, tx.tx_ins[i].tx_out_index,
                                          signatures[i].val)],
                                 tx.tx_outs))
        sign(tx) ==
            signed(tx, [i \in 1..Len(tx.tx_ins) |->
                           sign_tx_in(tx, i, wallet.private_key, unspent_tx_outs)])
        build(found) ==
            IF found.panic THEN RPanic
            ELSE IF found.err # 0 THEN RErr(found.err)
            ELSE sign(Transaction_generate(
                          [i \in 1..Len(found.val[1]) |->
                              TxIn(found.val[1][i].tx_out_id, found.val[1][i].tx_out_index,
                                   <<>>)],
                          create_tx_outs(receiver_address, my_address, amount, found.val[2])))
    IN  build(find_tx_outs_for_amount(find_unspent_tx_outs(my_address, unspent_tx_outs),
                                      amount, oc))

\* ------------------------------------------------- block.rs, the mutators
\* Block::generate_raw
Block_generate_raw(blockchain, data, now_, oc) ==
    LET generate(difficulty) ==
            IF difficulty.panic THEN RPanic
            ELSE ROk(Block_generate(data, get_latest_block(blockchain), difficulty.val, now_))
    IN  generate(get_difficulty(blockchain, oc))

\* Block::generate_with_coinbase_transaction
Block_generate_with_coinbase_transaction(blockchain, transaction_pool, wallet, now_, oc) ==
    Block_generate_raw(blockchain,
        <<get_coinbase_transaction(wallet.public_key, get_latest_block(blockchain).index + 1)>>
            \o transaction_pool,
        now_, oc)

\* Block::generate_with_transaction
Block_generate_with_transaction(blockchain, wallet, unspent_tx_outs, receiver_address, amount, now_, oc) ==
    LET coinbase_tx == get_coinbase_transaction(wallet.public_key,
                                                get_latest_block(blockchain).index + 1)
        generate(tx) ==
            IF tx.panic THEN RPanic
            ELSE IF tx.err # 0 THEN RErr(tx.err)
            ELSE Block_generate_raw(blockchain, <<coinbase_tx, tx.val>>, now_, oc)
    IN  generate(create_transaction(receiver_address, amount, wallet, unspent_tx_outs, oc))

\* The three stores add_block is handed, as it leaves them.
Stores(blockchain, unspent_tx_outs, transaction_pool) ==
    [blockchain |-> blockchain, unspent_tx_outs |-> unspent_tx_outs,
     transaction_pool |-> transaction_pool]

\* add_block without line 235: the block is pushed and the unspent outputs
\* are left as they were.
add_block_without_replace(blockchain, unspent_tx_outs, transaction_pool, new_block, now_, oc) ==
    LET same == Stores(blockchain, unspent_tx_outs, transaction_pool)
        push(processed) ==
            IF processed.panic THEN [panic |-> TRUE, err |-> 0, stores |-> same]
            ELSE IF processed.err # 0
            THEN [panic |-> FALSE, err |-> processed.err, stores |-> same]
            ELSE [panic |-> FALSE, err |-> 0,
                  stores |-> Stores(Append(blockchain, new_block), unspent_tx_outs,
                                    update_transaction_pool(transaction_pool, processed.val))]
        process(valid) ==
            IF valid.panic THEN [panic |-> TRUE, err |-> 0, stores |-> same]
            ELSE IF ~valid.val THEN [panic |-> FALSE, err |-> 1000, stores |-> same]
            ELSE push(process_transactions(new_block.data, unspent_tx_outs,
                                           new_block.index, oc))
    IN  process(get_is_valid_new_block(new_block, get_latest_block(blockchain), now_, oc))

\* add_block: the outcome (panic, err) and the stores after the call.
add_block(blockchain, unspent_tx_outs, transaction_pool, new_block, now_, oc) ==
    LET same == Stores(blockchain, unspent_tx_outs, transaction_pool)
        push(processed) ==
            IF processed.panic THEN [panic |-> TRUE, err |-> 0, stores |-> same]
            ELSE IF processed.err # 0
            THEN [panic |-> FALSE, err |-> processed.err, stores |-> same]
            ELSE [panic |-> FALSE, err |-> 0,
                  stores |-> Stores(Append(blockchain, new_block), processed.val,
                                    update_transaction_pool(transaction_pool, processed.val))]
        process(valid) ==
            IF valid.panic THEN [panic |-> TRUE, err |-> 0, stores |-> same]
            ELSE IF ~valid.val THEN [panic |-> FALSE, err |-> 1000, stores |-> same]
            ELSE push(process_transactions(new_block.data, unspent_tx_outs,
                                           new_block.index, oc))
    IN  process(get_is_valid_new_block(new_block, get_latest_block(blockchain), now_, oc))

\* ------------------------------------------------------------ lib.rs, run
GenesisKey == "g"       \* the secret key of the genesis address
WalletKey == "w"        \* the secret key in the node's private key file
PeerKey == "p"          \* the secret key of the remote peer

GenesisAddress == get_public_key(GenesisKey)
PeerAddress == get_public_key(PeerKey)
wallet == Wallet(WalletKey)

genesis_transaction ==
    Transaction_generate(<<TxIn(<<>>, 0, <<>>)>>, <<TxOut(GenesisAddress, COINBASE_AMOUNT)>>)

genesis_block ==
    Block(0, calculate_hash(0, <<>>, GenesisTimestamp, <<genesis_transaction>>, 0, 0),
          <<>>, GenesisTimestamp, <<genesis_transaction>>, 0, 0)

\* Utc::now() when the node starts.
StartClock == GenesisTimestamp + 100

VARIABLES
    blockchain,         \* Arc<RwLock<Vec<Block>>>
    unspent_tx_outs,    \* Arc<RwLock<Vec<UnspentTxOut>>>
    transaction_pool,   \* Arc<RwLock<Vec<Transaction>>>
    now,                \* Utc::now().timestamp(); a run is shorter than a second
    overflow_checks,    \* the build: TRUE debug (overflow panics), FALSE release (wraps)
    poisoned,           \* the RwLocks a panic has poisoned
    reader,             \* the reader task of the peer's connection, inside receive
    events,             \* the events in the broadcast channel, oldest first
    last,               \* the handler that ran last and how it ended
    probe,              \* a function under test: its arguments and its result
    guards,             \* per RwLock, the thread that holds its write guard
    worker,             \* per thread, the handler it is in and how far it got
    connections,        \* the broker's HashMap<String, Connection>
    tasks,              \* per peer id, the listen or connect task of its connection
    written,            \* per peer id, the frames the broker wrote for its latest event
    broker,             \* the broadcast task: the event it handled last, and whether it panicked
    nodes,              \* a network of nodes: per node, its three stores
    channels,           \* per node, the events in its broadcast channel, oldest first
    wires,              \* per connection and direction, the frames written and not yet read
    origins,            \* the requests the nodes of the network have served
    dials               \* the connect tasks the broker spawned, in the order of their dials

vars == <<blockchain, unspent_tx_outs, transaction_pool, now, overflow_checks,
          poisoned, reader, events, last, probe, guards, worker,
          connections, tasks, written, broker, nodes, channels, wires, origins,
          dials>>

\* The threads that take the locks: two HTTP workers and the peer's reader.
Threads == {"http1", "http2", "reader"}
Locks == {"blockchain", "unspent_tx_outs", "transaction_pool"}
Free == "none"
Idle == [handler |-> "none", pc |-> "idle", todo |-> <<>>, held |-> <<>>, nonce |-> 0]
lock_vars == <<guards, worker>>
\* What the handlers that run from their first lock to their last unlock in
\* one step leave alone: between two of them no guard is held.
broker_vars == <<connections, tasks, written, broker>>
network_vars == <<nodes, channels, wires, origins>>
elsewhere == <<lock_vars, broker_vars, network_vars, dials>>

\* Three nodes, each connected to the two others: the connections form a cycle.
Nodes == {1, 2, 3}
Wires == {w \in Nodes \X Nodes : w[1] # w[2]}

\* Peers that dialled this node, by socket address, and the URLs that
\* /add-peer is given; BadUrl is text that Url::parse refuses.
Accepted == {"127.0.0.1:50001", "127.0.0.1:50002"}
BadUrl == "peer"
Urls == {"ws://peer", BadUrl}
PeerIds == Accepted \cup Urls

\* connection.rs: listener and connector are Options, sequences of at most
\* one sink.
Connection(peer, listener, connector) ==
    [peer |-> peer, listener |-> listener, connector |-> connector]
NoConnection == [peer |-> "", listener |-> <<>>, connector |-> <<>>]
NoEvent == [type |-> "none", payload |-> <<>>, except |-> <<>>]
BrokerStarted == [panicked |-> FALSE, handled |-> NoEvent, connected |-> FALSE]

\* How a handler ended: it panicked, returned error code err, or (err = 0) succeeded.
Respond(op, panic, err) == [op |-> op, panic |-> panic, err |-> err]

\* events.rs: Blockchain(chain, except) and Transaction(pool, except); except
\* is an Option<String>, a sequence of at most one peer.
BroadcastEvents(type, payload, except) ==
    [type |-> type, payload |-> payload, except |-> except]

\* The channel is closed once the broadcast task, which owns the receiver, has
\* panicked: UnboundedSender::send then returns Err and enqueues nothing.
channel_closed == broker.panicked

\* let _ = broadcast_sender.send(event): the Err of a closed channel is dropped.
channel_send(queue, event) == IF channel_closed THEN queue ELSE Append(queue, event)

ReaderIdle == [pc |-> "idle", new_blockchain |-> <<>>, u_guard |-> <<>>, received |-> <<>>]
ReaderDead == [pc |-> "dead", new_blockchain |-> <<>>, u_guard |-> <<>>, received |-> <<>>]

NoProbe == [fn |-> "none", args |-> <<>>, done |-> FALSE, result |-> <<>>]

\* The node as run leaves it, before the first request or message.
Booted ==
    /\ blockchain = <<genesis_block>>
    /\ unspent_tx_outs = get_unspent_tx_outs(<<genesis_block>>, TRUE).val
    /\ transaction_pool = <<>>
    /\ now = StartClock
    /\ poisoned = {}
    /\ reader = ReaderIdle
    /\ events = <<>>
    /\ last = Respond("run", FALSE, 0)
    /\ guards = [l \in Locks |-> Free]
    /\ worker = [t \in Threads |-> Idle]
    /\ connections = [p \in PeerIds |-> NoConnection]
    /\ tasks = [p \in PeerIds |-> "none"]
    /\ written = [p \in PeerIds |-> <<>>]
    /\ broker = BrokerStarted
    /\ nodes = [n \in Nodes |->
                   Stores(<<genesis_block>>, get_unspent_tx_outs(<<genesis_block>>, TRUE).val,
                          <<>>)]
    /\ channels = [n \in Nodes |-> <<>>]
    /\ wires = [w \in Wires |-> <<>>]
    /\ origins = 0
    /\ dials = <<>>

Init ==
    /\ Booted
    /\ overflow_checks \in BOOLEAN
    /\ probe = NoProbe

\* lock.write().unwrap() (or read().unwrap()) on each lock of order in turn:
\* a poisoned lock panics, and the panic poisons the write guards held so far.
RECURSIVE LockAll(_, _, _)
LockAll(order, held, p) ==
    IF order = <<>> THEN [panic |-> FALSE, poisoned |-> p]
    ELSE IF Head(order) \in p THEN [panic |-> TRUE, poisoned |-> p \cup held]
    ELSE LockAll(Tail(order), held \cup {Head(order)}, p)

\* The order mine_raw_block, mine_block and mine_transaction lock in.
MineLocks == <<"blockchain", "unspent_tx_outs", "transaction_pool">>

\* What the three mining handlers share: with the three write guards held
\* and the block generated, add_block and send Blockchain(chain, None).
Mine(op, generated) ==
    LET same == Stores(blockchain, unspent_tx_outs, transaction_pool)
        all == {MineLocks[i] : i \in 1..Len(MineLocks)}
        ended(stores, poisoned_, events_, panic, err) ==
            [stores |-> stores, poisoned |-> poisoned_, events |-> events_,
             last |-> Respond(op, panic, err)]
        send(added) ==
            IF added.panic THEN ended(same, poisoned \cup all, events, TRUE, 0)
            ELSE IF added.err # 0 THEN ended(same, poisoned, events, FALSE, added.err)
            ELSE ended(added.stores, poisoned,
                       channel_send(events,
                              BroadcastEvents("Blockchain", added.stores.blockchain, <<>>)),
                       FALSE, 0)
        add(locks) ==
            IF locks.panic THEN ended(same, locks.poisoned, events, TRUE, 0)
            ELSE IF generated.panic THEN ended(same, poisoned \cup all, events, TRUE, 0)
            ELSE IF generated.err # 0 THEN ended(same, poisoned, events, FALSE, generated.err)
            ELSE send(add_block(blockchain, unspent_tx_outs, transaction_pool,
                                generated.val, now, overflow_checks))
    IN  add(LockAll(MineLocks, {}, poisoned))

\* The handler's effect on the state.
Mined(m) ==
    /\ blockchain' = m.stores.blockchain
    /\ unspent_tx_outs' = m.stores.unspent_tx_outs
    /\ transaction_pool' = m.stores.transaction_pool
    /\ poisoned' = m.poisoned
    /\ events' = m.events
    /\ last' = m.last
    /\ UNCHANGED <<now, overflow_checks, reader, probe, elsewhere>>

\* A handler that mines returns once its nonce search has: the chain length
\* and the channel are capped.
CanMine ==
    LET returns(difficulty) == difficulty.panic \/ CanGenerate(difficulty.val) IN
    /\ Len(blockchain) < MaxChainLen
    /\ Len(events) < MaxEvents
    /\ returns(get_difficulty(blockchain, overflow_checks))

\* ------------------------------------------------ what clients and peers send
\* A transfer of the genesis output to the peer, signed with the genesis key.
SpendGenesisTx ==
    LET tx == Transaction_generate(<<TxIn(genesis_transaction.id, 0, <<>>)>>,
                                   <<TxOut(PeerAddress, COINBASE_AMOUNT)>>)
    IN  Transaction(tx.id, <<TxIn(genesis_transaction.id, 0, sign_ecdsa(tx.id, GenesisKey))>>,
                    tx.tx_outs)

\* The same transfer with an empty signature.
UnsignedTx ==
    Transaction_generate(<<TxIn(genesis_transaction.id, 0, <<>>)>>,
                         <<TxOut(PeerAddress, COINBASE_AMOUNT)>>)

\* No input, two outputs of 2^63 each.
InflateTx == Transaction_generate(<<>>, <<TxOut(PeerAddress, U64Half), TxOut(PeerAddress, U64Half)>>)

\* The genesis output listed twice among the inputs, both signed, and paid
\* out twice over.
TwiceTx ==
    LET spend == TxIn(genesis_transaction.id, 0, <<>>)
        tx == Transaction_generate(<<spend, spend>>,
                                   <<TxOut(PeerAddress, 2 * COINBASE_AMOUNT)>>)
        signed == TxIn(genesis_transaction.id, 0, sign_ecdsa(tx.id, GenesisKey))
    IN  Transaction(tx.id, <<signed, signed>>, tx.tx_outs)

\* No input, one output of amount 0.
EmptyTx == Transaction_generate(<<>>, <<TxOut(PeerAddress, 0)>>)

\* An input naming output 7 of the genesis transaction, which has one output.
PhantomTx ==
    LET tx == Transaction_generate(<<TxIn(genesis_transaction.id, 7, <<>>)>>,
                                   <<TxOut(PeerAddress, 0)>>)
    IN  Transaction(tx.id, <<TxIn(genesis_transaction.id, 7, sign_ecdsa(tx.id, GenesisKey))>>,
                    tx.tx_outs)

\* The bodies of POST /mine-raw-block.
RawData ==
    LET coinbase_tx == get_coinbase_transaction(wallet.public_key,
                                                get_latest_block(blockchain).index + 1)
    IN  { <<>>, <<coinbase_tx>>, <<coinbase_tx, UnsignedTx>>, <<coinbase_tx, InflateTx>>,
          <<coinbase_tx, EmptyTx>> }

\* The bodies of POST /mine-transaction and POST /send-transaction.
Amounts == {20, COINBASE_AMOUNT}

\* The transaction lists of the peer's Transaction messages.
ReceivedTransactions ==
    { <<SpendGenesisTx>>, <<UnsignedTx>>, <<InflateTx>>, <<PhantomTx, SpendGenesisTx>>,
      <<TwiceTx>> }

\* A block the peer mined on previous at StartClock.
RemoteBlock(previous, data, difficulty) == Block_generate(data, previous, difficulty, StartClock)

PeerCoinbase(index) == get_coinbase_transaction(PeerAddress, index)

RemoteA1 == RemoteBlock(genesis_block, <<PeerCoinbase(1)>>, 0)
RemoteA2 == RemoteBlock(RemoteA1, <<PeerCoinbase(2)>>, 0)
RemoteB1 == RemoteBlock(genesis_block, <<PeerCoinbase(1)>>, 1)
\* A block without a coinbase transaction.
RemoteX1 == RemoteBlock(genesis_block, <<>>, 0)
\* The genesis block with another difficulty.
GenesisPrime == [genesis_block EXCEPT !.difficulty = 1]
\* A block whose hash is not the hash of its fields.
RemoteTampered == [RemoteA1 EXCEPT !.data = <<PeerCoinbase(2)>>]

\* The chains of the peer's Blockchain messages.
RemoteChains ==
    { <<>>, <<genesis_block, RemoteA1>>, <<genesis_block, RemoteA1, RemoteA2>>,
      <<genesis_block, RemoteB1>>, <<GenesisPrime>>, <<genesis_block, RemoteX1>>,
      <<genesis_block, RemoteTampered>> }

\* The peer id of the connection the reader serves.
Peer == "ws://peer"

\* ----------------------------------------------------------------- routes.rs
mine_raw_block(data) ==
    /\ CanMine
    /\ Mined(Mine("mine_raw_block",
                  Block_generate_raw(blockchain, data, now, overflow_checks)))

mine_block ==
    /\ CanMine
    /\ Mined(Mine("mine_block",
                  Block_generate_with_coinbase_transaction(blockchain, transaction_pool,
                                                           wallet, now, overflow_checks)))

mine_transaction(address, amount) ==
    /\ CanMine
    /\ Mined(Mine("mine_transaction",
                  Block_generate_with_transaction(blockchain, wallet, unspent_tx_outs,
                                                  address, amount, now, overflow_checks)))

\* send_transaction locks the pool first and the unspent outputs second.
SendLocks == <<"transaction_pool", "unspent_tx_outs">>

send_transaction(address, amount) ==
    LET both == {SendLocks[i] : i \in 1..Len(SendLocks)}
        panicked(poisoned_) ==
            /\ poisoned' = poisoned_
            /\ last' = Respond("send_transaction", TRUE, 0)
            /\ UNCHANGED <<transaction_pool, events>>
        failed(err) ==
            /\ last' = Respond("send_transaction", FALSE, err)
            /\ UNCHANGED <<transaction_pool, events, poisoned>>
        send(added) ==
            IF added.panic THEN panicked(poisoned \cup both)
            ELSE IF added.err # 0 THEN failed(added.err)
            ELSE /\ transaction_pool' = added.pool
                 /\ events' = channel_send(events,
                                BroadcastEvents("Transaction", added.pool, <<>>))
                 /\ last' = Respond("send_transaction", FALSE, 0)
                 /\ UNCHANGED poisoned
        add(tx) ==
            IF tx.panic THEN panicked(poisoned \cup both)
            ELSE IF tx.err # 0 THEN failed(tx.err)
            ELSE send(add_to_transaction_pool(tx.val, transaction_pool, unspent_tx_outs,
                                              overflow_checks))
        create(locks) ==
            IF locks.panic THEN panicked(locks.poisoned)
            ELSE add(create_transaction(address, amount, wallet, unspent_tx_outs,
                                        overflow_checks))
    IN  /\ Len(transaction_pool) < MaxPool
        /\ Len(events) < MaxEvents
        /\ create(LockAll(SendLocks, {}, poisoned))
        /\ UNCHANGED <<blockchain, unspent_tx_outs, now, overflow_checks, reader, probe, elsewhere>>

\* ----------------------------------------------------------------- socket.rs
\* receive, a Blockchain message, up to the test of get_is_replace_chain: the
\* chain is cloned under a read lock that is released at once.
receive_blockchain(new_blockchain) ==
    LET decide(replace) ==
            IF "blockchain" \in poisoned \/ replace.panic
            THEN /\ reader' = ReaderDead
                 /\ last' = Respond("receive_blockchain", TRUE, 0)
            ELSE IF ~replace.val
            THEN /\ reader' = ReaderIdle
                 /\ last' = Respond("receive_blockchain", FALSE, 0)
            ELSE /\ reader' = [ReaderIdle EXCEPT !.pc = "replace",
                                                 !.new_blockchain = new_blockchain]
                 /\ last' = Respond("receive_blockchain", FALSE, 0)
    IN  /\ reader.pc = "idle"
        /\ decide(get_is_replace_chain(blockchain, new_blockchain, now, overflow_checks))
        /\ UNCHANGED <<blockchain, unspent_tx_outs, transaction_pool, now, overflow_checks,
                       poisoned, events, probe, elsewhere>>

\* The order receive locks in when it replaces the chain.
ReplaceLocks == <<"blockchain", "unspent_tx_outs">>

\* receive, a Blockchain message, the branch taken when get_is_replace_chain
\* was true: both write locks, get_unspent_tx_outs, the two replacements and
\* Blockchain(chain, Some(peer)).
replace_blockchain ==
    LET both == {ReplaceLocks[i] : i \in 1..Len(ReplaceLocks)}
        panicked(poisoned_) ==
            /\ poisoned' = poisoned_
            /\ reader' = ReaderDead
            /\ last' = Respond("replace_blockchain", TRUE, 0)
            /\ UNCHANGED <<blockchain, unspent_tx_outs, events>>
        replace(replayed) ==
            IF replayed.panic THEN panicked(poisoned \cup both)
            ELSE IF channel_closed
            THEN \* tx.send(..).unwrap() panics after the two replacements
                 /\ blockchain' = reader.new_blockchain
                 /\ unspent_tx_outs' = replayed.val
                 /\ poisoned' = poisoned \cup both
                 /\ reader' = ReaderDead
                 /\ last' = Respond("replace_blockchain", TRUE, 0)
                 /\ UNCHANGED events
            ELSE /\ blockchain' = reader.new_blockchain
                 /\ unspent_tx_outs' = replayed.val
                 /\ events' = Append(events, BroadcastEvents("Blockchain",
                                                             reader.new_blockchain, <<Peer>>))
                 /\ reader' = ReaderIdle
                 /\ last' = Respond("replace_blockchain", FALSE, 0)
                 /\ UNCHANGED poisoned
        replay(locks) ==
            IF locks.panic THEN panicked(locks.poisoned)
            ELSE replace(get_unspent_tx_outs(reader.new_blockchain, overflow_checks))
    IN  /\ reader.pc = "replace"
        /\ Len(events) < MaxEvents
        /\ replay(LockAll(ReplaceLocks, {}, poisoned))
        /\ UNCHANGED <<transaction_pool, now, overflow_checks, probe, elsewhere>>

\* receive, a Transaction message, the clone of the unspent outputs under a
\* read lock that is released at once.
receive_transaction(received_transactions) ==
    /\ reader.pc = "idle"
    /\ Len(transaction_pool) < MaxPool
    /\ IF "unspent_tx_outs" \in poisoned
       THEN /\ reader' = ReaderDead
            /\ last' = Respond("receive_transaction", TRUE, 0)
       ELSE /\ reader' = [ReaderIdle EXCEPT !.pc = "add", !.u_guard = unspent_tx_outs,
                                            !.received = received_transactions]
            /\ last' = Respond("receive_transaction", FALSE, 0)
    /\ UNCHANGED <<blockchain, unspent_tx_outs, transaction_pool, now, overflow_checks,
                   poisoned, events, probe, elsewhere>>

\* for transaction in received_transactions: add_to_transaction_pool, and on
\* Ok tx.send(Transaction(pool, Some(peer))).unwrap().  A panic ends the loop.
RECURSIVE offer_transactions(_, _, _, _, _)
offer_transactions(received, pool, u_guard, sent, oc) ==
    LET rest(added) ==
            IF added.panic THEN [panic |-> TRUE, pool |-> pool, events |-> sent]
            ELSE IF added.err # 0
            THEN offer_transactions(Tail(received), pool, u_guard, sent, oc)
            ELSE IF channel_closed
            THEN [panic |-> TRUE, pool |-> added.pool, events |-> sent]
            ELSE offer_transactions(Tail(received), added.pool, u_guard,
                                    Append(sent, BroadcastEvents("Transaction", added.pool,
                                                                 <<Peer>>)), oc)
    IN  IF received = <<>> THEN [panic |-> FALSE, pool |-> pool, events |-> sent]
        ELSE rest(add_to_transaction_pool(Head(received), pool, u_guard, oc))

\* receive, a Transaction message, from the write lock of the pool on.
add_received_transactions ==
    LET ended(offered) ==
            /\ transaction_pool' = offered.pool
            /\ events' = offered.events
            /\ poisoned' = IF offered.panic THEN poisoned \cup {"transaction_pool"}
                           ELSE poisoned
            /\ reader' = IF offered.panic THEN ReaderDead ELSE ReaderIdle
            /\ last' = Respond("add_received_transactions", offered.panic, 0)
    IN  /\ reader.pc = "add"
        /\ Len(events) < MaxEvents
        /\ IF "transaction_pool" \in poisoned
           THEN /\ reader' = ReaderDead
                /\ last' = Respond("add_received_transactions", TRUE, 0)
                /\ UNCHANGED <<transaction_pool, events, poisoned>>
           ELSE ended(offer_transactions(reader.received, transaction_pool,
                                         reader.u_guard, events, overflow_checks))
        /\ UNCHANGED <<blockchain, unspent_tx_outs, now, overflow_checks, probe, elsewhere>>

\* broadcast: rx.recv() takes the oldest event and fans it out.
broadcast ==
    /\ events # <<>>
    /\ events' = Tail(events)
    /\ UNCHANGED <<blockchain, unspent_tx_outs, transaction_pool, now, overflow_checks,
                   poisoned, reader, last, probe, elsewhere>>

Next ==
    \/ \E data \in RawData : mine_raw_block(data)
    \/ mine_block
    \/ \E amount \in Amounts : mine_transaction(PeerAddress, amount)
    \/ \E amount \in Amounts : send_transaction(PeerAddress, amount)
    \/ \E new_blockchain \in RemoteChains : receive_blockchain(new_blockchain)
    \/ replace_blockchain
    \/ \E received \in ReceivedTransactions : receive_transaction(received)
    \/ add_received_transactions
    \/ broadcast

Spec == Init /\ [][Next]_vars

\* ------------------------------------------- the engine, called directly
\* A block with a hash that is the hash of its fields and has fewer leading
\* zero bits than its difficulty asks for.
WeakBlock(data, previous, difficulty, now_) ==
    LET matches(n) ==
            get_is_hash_matches_difficulty(
                calculate_hash(previous.index + 1, previous.hash, now_, data, difficulty, n),
                difficulty)
        built(nonce) ==
            Block(previous.index + 1,
                  calculate_hash(previous.index + 1, previous.hash, now_, data, difficulty,
                                 nonce),
                  previous.hash, now_, data, difficulty, nonce)
    IN  built(CHOOSE n \in 0..MaxZeroBits : ~matches(n))

\* The blocks a caller hands to add_block: blocks mined on the latest block,
\* with data that applies and data that does not, and blocks that fail one
\* of the checks of get_is_valid_new_block.
CandidateBlocks ==
    LET latest == get_latest_block(blockchain)
        coinbase_tx == get_coinbase_transaction(wallet.public_key, latest.index + 1)
        mined(data) == Block_generate(data, latest, latest.difficulty, now)
        good == mined(<<coinbase_tx>>)
    IN  { good,
          mined(<<coinbase_tx, SpendGenesisTx>>),
          mined(<<coinbase_tx>> \o transaction_pool),
          mined(<<>>),
          mined(<<coinbase_tx, UnsignedTx>>),
          mined(<<coinbase_tx, InflateTx>>),
          [good EXCEPT !.hash = <<>>],
          [good EXCEPT !.index = latest.index + 2],
          [good EXCEPT !.previous_hash = good.hash],
          [good EXCEPT !.nonce = good.nonce + 1],
          Block_generate(<<coinbase_tx>>, latest, latest.difficulty,
                         latest.timestamp - TIMESTAMP_INTERVAL),
          Block_generate(<<coinbase_tx>>, latest, latest.difficulty,
                         now + TIMESTAMP_INTERVAL),
          WeakBlock(<<coinbase_tx>>, latest, 1, now) }

\* The transactions a caller offers to add_to_transaction_pool.
CandidateTransactions == {SpendGenesisTx, UnsignedTx, InflateTx, PhantomTx}

call_add_block(new_block) ==
    LET returned(added) ==
            /\ blockchain' = added.stores.blockchain
            /\ unspent_tx_outs' = added.stores.unspent_tx_outs
            /\ transaction_pool' = added.stores.transaction_pool
            /\ last' = Respond("add_block", added.panic, added.err)
    IN  /\ Len(blockchain) < MaxChainLen
        /\ returned(add_block(blockchain, unspent_tx_outs, transaction_pool, new_block,
                              now, overflow_checks))
        /\ probe' = [fn |-> "add_block", args |-> <<new_block>>, done |-> TRUE,
                     result |-> <<>>]
        /\ UNCHANGED <<now, overflow_checks, poisoned, reader, events, elsewhere>>

call_add_to_transaction_pool(tx) ==
    LET returned(added) ==
            /\ transaction_pool' = added.pool
            /\ last' = Respond("add_to_transaction_pool", added.panic, added.err)
    IN  /\ Len(transaction_pool) < MaxPool
        /\ returned(add_to_transaction_pool(tx, transaction_pool, unspent_tx_outs,
                                            overflow_checks))
        /\ probe' = [fn |-> "add_to_transaction_pool", args |-> <<tx>>, done |-> TRUE,
                     result |-> <<>>]
        /\ UNCHANGED <<blockchain, unspent_tx_outs, now, overflow_checks, poisoned,
                       reader, events, elsewhere>>

NextEngine ==
    \/ \E new_block \in CandidateBlocks : call_add_block(new_block)
    \/ \E tx \in CandidateTransactions : call_add_to_transaction_pool(tx)

SpecEngine == Init /\ [][NextEngine]_vars

\* ------------------------------------------- the validators, called directly
\* Another child of the genesis block at difficulty 1, paying this node.
RemoteC1 ==
    RemoteBlock(genesis_block, <<get_coinbase_transaction(wallet.public_key, 1)>>, 1)

\* The chains get_is_replace_chain is called with: <<blockchain, new_blockchain>>.
ReplaceInputs ==
    { <<local, incoming>> :
        local \in { <<genesis_block>>, <<genesis_block, RemoteA1>>,
                    <<genesis_block, RemoteB1>>, <<genesis_block, RemoteC1>>,
                    <<genesis_block, RemoteA1, RemoteA2>> },
        incoming \in RemoteChains \cup { <<genesis_block>>, <<genesis_block, RemoteC1>> } }

\* The inputs of the transactions has_duplicates is called with.
DuplicateTxIns ==
    { TxIn(id, index, <<>>) :
        id \in { <<>>, <<Digit(1)>>, genesis_transaction.id }, index \in {0, 2, 12} }

\* Two inputs in one transaction, or in two transactions of one input each.
DuplicateInputs ==
    { <<transactions>> :
        transactions \in
            { <<Transaction_generate(<<a, b>>, <<>>)>> : a, b \in DuplicateTxIns }
            \cup { <<Transaction_generate(<<a>>, <<>>), Transaction_generate(<<b>>, <<>>)>> :
                     a, b \in DuplicateTxIns } }

\* The genesis transfer signed with the peer's key.
WrongKeyTx ==
    Transaction(UnsignedTx.id,
                <<TxIn(genesis_transaction.id, 0, sign_ecdsa(UnsignedTx.id, PeerKey))>>,
                UnsignedTx.tx_outs)

\* The genesis transfer paying out less than it takes in.
UnbalancedTx ==
    LET tx == Transaction_generate(<<TxIn(genesis_transaction.id, 0, <<>>)>>,
                                   <<TxOut(PeerAddress, 20)>>)
    IN  Transaction(tx.id, <<TxIn(genesis_transaction.id, 0, sign_ecdsa(tx.id, GenesisKey))>>,
                    tx.tx_outs)

\* The genesis transfer with an id that is not the hash of its content.
ForgedIdTx == [SpendGenesisTx EXCEPT !.id = UnsignedTx.id \o <<Digit(0)>>]

\* The transactions and unspent outputs get_is_valid_transaction is called with.
TransactionInputs ==
    { <<transaction, unspent>> :
        transaction \in { SpendGenesisTx, UnsignedTx, InflateTx, PhantomTx, WrongKeyTx,
                          UnbalancedTx, ForgedIdTx },
        unspent \in { <<>>,
                      <<UnspentTxOut(genesis_transaction.id, 0, GenesisAddress,
                                     COINBASE_AMOUNT)>>,
                      <<UnspentTxOut(genesis_transaction.id, 0, PeerAddress,
                                     COINBASE_AMOUNT)>>,
                      <<UnspentTxOut(genesis_transaction.id, 1, PeerAddress, 20),
                        UnspentTxOut(genesis_transaction.id, 0, GenesisAddress,
                                     COINBASE_AMOUNT)>> } }

\* The transactions and block indexes get_is_valid_coinbase_tx is called with.
CoinbaseInputs ==
    LET coinbase_tx == get_coinbase_transaction(wallet.public_key, 1)
        one_in == <<TxIn(<<>>, 1, <<>>)>>
        one_out == <<TxOut(wallet.public_key, COINBASE_AMOUNT)>>
    IN  { <<transaction, block_index>> :
            transaction \in
                { <<>>, <<coinbase_tx>>, <<SpendGenesisTx>>, <<PhantomTx>>,
                  <<get_coinbase_transaction(wallet.public_key, 0)>>,
                  <<[coinbase_tx EXCEPT !.id = <<>>]>>,
                  <<Transaction_generate(one_in \o one_in, one_out)>>,
                  <<Transaction_generate(<<>>, one_out)>>,
                  <<Transaction_generate(one_in, one_out \o one_out)>>,
                  <<Transaction_generate(one_in, <<>>)>>,
                  <<Transaction_generate(one_in, <<TxOut(wallet.public_key, 49)>>)>>,
                  <<Transaction_generate(<<TxIn(genesis_transaction.id, 1, <<>>)>>, one_out)>> },
            block_index \in 0..2 }

\* A chain of n blocks for get_difficulty, which reads the index, timestamp
\* and difficulty of its blocks: the block at len - 10 carries
\* prev_difficulty, the others last_difficulty, and the latest block is
\* taken seconds after the block at len - 10.
DifficultyChain(n, prev_difficulty, last_difficulty, taken) ==
    [i \in 1..n |->
        Block(i - 1, <<>>, <<>>,
              IF i = n /\ n > 1 THEN StartClock + taken ELSE StartClock,
              <<>>,
              IF i = (n - DIFFICULTY_ADJUSTMENT_INTERVAL) + 1 THEN prev_difficulty
              ELSE last_difficulty,
              0)]

\* The chains get_difficulty is called with.
DifficultyInputs ==
    { <<DifficultyChain(n, prev_difficulty, last_difficulty, taken)>> :
        n \in {1, 5, 10, 11, 12, 21},
        prev_difficulty \in 0..2,
        last_difficulty \in 0..1,
        taken \in {0 - 30, 0, 49, 50, 51, 200, 201} }

\* The blocks and clock readings get_is_valid_timestamp is called with:
\* <<new_block, previous_block, Utc::now()>>.
TimestampInputs ==
    { <<Block(1, <<>>, <<>>, new_timestamp, <<>>, 0, 0),
        Block(0, <<>>, <<>>, previous_timestamp, <<>>, 0, 0), now_>> :
        new_timestamp \in {0, 30, 59, 60, 100, 159, 160, 940, 1000, 1059, 1060, 1100},
        previous_timestamp \in {0, 59, 60, 61, 100, 1000, 1059, 1060},
        now_ \in {100, 1000} }

\* Unspent outputs a wallet function can be handed: two small outputs of the
\* wallet, the two outputs of one transfer (index 0 to the peer, index 1 the
\* wallet's change), and two outputs of the wallet of about half the range of usize.
UnspentPool ==
    << UnspentTxOut(Sha256(Dec(1)), 0, wallet.public_key, 10),
       UnspentTxOut(Sha256(Dec(2)), 0, wallet.public_key, 50),
       UnspentTxOut(Sha256(Dec(3)), 0, PeerAddress, 30),
       UnspentTxOut(Sha256(Dec(3)), 1, wallet.public_key, 20),
       UnspentTxOut(Sha256(Dec(4)), 0, wallet.public_key, U64Half),
       UnspentTxOut(Sha256(Dec(5)), 0, wallet.public_key, U64Half + 5),
       UnspentTxOut(Sha256(Dec(6)), 0, wallet.public_key, U64Half + 5) >>

\* The entries of UnspentPool at the positions of S, in the pool's order.
UnspentAt(S) ==
    LET at == SelectSeq([i \in 1..Len(UnspentPool) |-> i], LAMBDA i : i \in S)
    IN  [k \in 1..Len(at) |-> UnspentPool[at[k]]]

MaxUnspent == 3
UnspentLists == {UnspentAt(S) : S \in {T \in SUBSET (1..Len(UnspentPool)) : Cardinality(T) <= MaxUnspent}}
WalletAmounts == {0, 10, 15, 60, 80, U64Half + 10}

\* find_tx_outs_for_amount is called with <<my_unspent_tx_outs, amount>>.
FindInputs ==
    { <<find_unspent_tx_outs(wallet.public_key, unspent), amount>> :
        unspent \in UnspentLists, amount \in WalletAmounts }

\* create_transaction is called with <<receiver_address, amount, unspent_tx_outs>>
\* and the node's wallet.
CreateInputs ==
    { <<PeerAddress, amount, unspent>> : amount \in WalletAmounts, unspent \in UnspentLists }

\* get_transaction_id is called with <<tx_ins, tx_outs>>.
IdInputs == { <<args[1].tx_ins, args[1].tx_outs>> : args \in TransactionInputs }

\* Block::generate is called with <<data, previous, difficulty>>: previous is
\* the genesis block or a block mined on it.
GenerateInputs ==
    { <<data, previous, difficulty>> :
        data \in { <<>>, <<PeerCoinbase(1)>>, <<PeerCoinbase(2)>> },
        previous \in { genesis_block, RemoteA1, RemoteB1 },
        difficulty \in 0..MaxZeroBits }

\* The difficulties of the blocks get_accumulated_difficulty is called with,
\* and the chains: it reads the difficulty of a block and nothing else.
WorkDifficulties == {0, 2, 30, 31, 32}
WorkChain(difficulties) ==
    [i \in 1..Len(difficulties) |-> Block(i - 1, <<>>, <<>>, StartClock, <<>>, difficulties[i], 0)]
MaxWorkChain == 3
AccumulatedInputs ==
    { <<WorkChain(difficulties)>> :
        difficulties \in UNION { [1..n -> WorkDifficulties] : n \in 1..MaxWorkChain } }

\* A transaction of one input and one output, the input signed with key.
SignedTransfer(tx_out_id, tx_out_index, key, address, amount) ==
    LET tx == Transaction_generate(<<TxIn(tx_out_id, tx_out_index, <<>>)>>,
                                   <<TxOut(address, amount)>>)
    IN  Transaction(tx.id, <<TxIn(tx_out_id, tx_out_index, sign_ecdsa(tx.id, key))>>,
                    tx.tx_outs)

\* The unspent outputs a block of index 1 is applied to: the wallet's output
\* of 50 and the two outputs of one transfer (index 0 the peer's 30, index 1
\* the wallet's change of 20).
ApplyUnspent == UnspentAt({2, 3, 4})

\* The wallet spends its output of 50.
OwnerSpendTx == SignedTransfer(Sha256(Dec(2)), 0, WalletKey, PeerAddress, 50)
\* The peer signs an input that names the wallet's change.
OtherKeyTx == SignedTransfer(Sha256(Dec(3)), 1, PeerKey, PeerAddress, 20)
\* A coinbase transaction for block 1 whose input names the wallet's change:
\* tx_out_index is the block index, tx_out_id is not the empty string.
NamingCoinbase ==
    Transaction_generate(<<TxIn(Sha256(Dec(3)), 1, <<>>)>>,
                         <<TxOut(PeerAddress, COINBASE_AMOUNT)>>)

\* The transactions of a block, the unspent outputs and the block index that
\* the application of a block is called with.
ApplyInputs ==
    { <<data, ApplyUnspent, 1>> :
        data \in { <<PeerCoinbase(1)>>, <<PeerCoinbase(1), OwnerSpendTx>>,
                   <<PeerCoinbase(1), OtherKeyTx>>, <<NamingCoinbase>>,
                   <<NamingCoinbase, OwnerSpendTx>>,
                   <<PeerCoinbase(1), OwnerSpendTx, OtherKeyTx>> } }

Call(fn, args) == [fn |-> fn, args |-> args, done |-> FALSE, result |-> <<>>]

Calls ==
    { Call("get_is_replace_chain", args) : args \in ReplaceInputs }
    \cup { Call("has_duplicates", args) : args \in DuplicateInputs }
    \cup { Call("get_is_valid_transaction", args) : args \in TransactionInputs }
    \cup { Call("get_is_valid_coinbase_tx", args) : args \in CoinbaseInputs }
    \cup { Call("get_difficulty", args) : args \in DifficultyInputs }
    \cup { Call("get_is_valid_timestamp", args) : args \in TimestampInputs }
    \cup { Call("find_tx_outs_for_amount", args) : args \in FindInputs }
    \cup { Call("create_transaction", args) : args \in CreateInputs }
    \cup { Call("get_transaction_id", args) : args \in IdInputs }
    \cup { Call("Block_generate", args) : args \in GenerateInputs }
    \cup { Call("get_accumulated_difficulty", args) : args \in AccumulatedInputs }
    \cup { Call("process_transactions", args) : args \in ApplyInputs }

InitFunctions ==
    /\ Booted
    /\ overflow_checks \in BOOLEAN
    /\ probe \in Calls

Returned(fn, result) ==
    /\ probe.fn = fn
    /\ ~probe.done
    /\ probe' = [probe EXCEPT !.done = TRUE, !.result = result]
    /\ UNCHANGED <<blockchain, unspent_tx_outs, transaction_pool, now, overflow_checks,
                   poisoned, reader, events, last, elsewhere>>

call_get_is_replace_chain ==
    /\ probe.fn = "get_is_replace_chain"
    /\ Returned("get_is_replace_chain",
                get_is_replace_chain(probe.args[1], probe.args[2], now, overflow_checks))

call_has_duplicates ==
    /\ probe.fn = "has_duplicates"
    /\ Returned("has_duplicates", has_duplicates(flatten_tx_ins(probe.args[1])))

call_get_is_valid_transaction ==
    /\ probe.fn = "get_is_valid_transaction"
    /\ Returned("get_is_valid_transaction",
                get_is_valid_transaction(probe.args[1], probe.args[2], overflow_checks))

call_get_is_valid_coinbase_tx ==
    /\ probe.fn = "get_is_valid_coinbase_tx"
    /\ Returned("get_is_valid_coinbase_tx",
                get_is_valid_coinbase_tx(probe.args[1], probe.args[2]))

call_get_difficulty ==
    /\ probe.fn = "get_difficulty"
    /\ Returned("get_difficulty", get_difficulty(probe.args[1], overflow_checks))

call_get_is_valid_timestamp ==
    /\ probe.fn = "get_is_valid_timestamp"
    /\ Returned("get_is_valid_timestamp",
                get_is_valid_timestamp(probe.args[1], probe.args[2], probe.args[3],
                                       overflow_checks))

call_find_tx_outs_for_amount ==
    /\ probe.fn = "find_tx_outs_for_amount"
    /\ Returned("find_tx_outs_for_amount",
                find_tx_outs_for_amount(probe.args[1], probe.args[2], overflow_checks))

call_create_transaction ==
    /\ probe.fn = "create_transaction"
    /\ Returned("create_transaction",
                create_transaction(probe.args[1], probe.args[2], wallet, probe.args[3],
                                   overflow_checks))

call_get_transaction_id ==
    /\ probe.fn = "get_transaction_id"
    /\ Returned("get_transaction_id", get_transaction_id(probe.args[1], probe.args[2]))

call_Block_generate ==
    /\ probe.fn = "Block_generate"
    /\ Returned("Block_generate",
                Block_generate(probe.args[1], probe.args[2], probe.args[3], now))

call_get_accumulated_difficulty ==
    /\ probe.fn = "get_accumulated_difficulty"
    /\ Returned("get_accumulated_difficulty",
                get_accumulated_difficulty(probe.args[1], overflow_checks))

call_process_transactions ==
    /\ probe.fn = "process_transactions"
    /\ Returned("process_transactions",
                process_transactions(probe.args[1], probe.args[2], probe.args[3],
                                     overflow_checks))

NextFunctions ==
    \/ call_get_is_replace_chain
    \/ call_has_duplicates
    \/ call_get_is_valid_transaction
    \/ call_get_is_valid_coinbase_tx
    \/ call_get_difficulty
    \/ call_get_is_valid_timestamp
    \/ call_find_tx_outs_for_amount
    \/ call_create_transaction
    \/ call_get_transaction_id
    \/ call_Block_generate
    \/ call_get_accumulated_difficulty
    \/ call_process_transactions

SpecFunctions == InitFunctions /\ [][NextFunctions]_vars

\* ------------------------------------------- the handlers, lock by lock
\* The variables the steps of the lock protocol leave alone.
node_vars == <<blockchain, unspent_tx_outs, transaction_pool, now, overflow_checks,
               poisoned, reader, events, last, probe, broker_vars, network_vars, dials>>

MiningHandlers == {"mine_raw_block", "mine_block", "mine_transaction"}

\* The handlers a thread runs: the routes on the HTTP workers, the two
\* branches of receive on the reader.
Handlers(t) ==
    IF t = "reader" THEN {"receive_blockchain", "receive_transaction"}
    ELSE MiningHandlers \cup {"send_transaction", "blocks"}

\* lock.read().unwrap() released within the statement: blocks and the
\* clones that receive takes before anything else.
ReadFirst(handler) ==
    CASE handler = "blocks" -> <<"blockchain">>
      [] handler = "receive_blockchain" -> <<"blockchain">>
      [] handler = "receive_transaction" -> <<"unspent_tx_outs">>
      [] OTHER -> <<>>

\* The write guards of a handler, in the order it takes them.
WriteOrder(handler) ==
    CASE handler \in MiningHandlers -> MineLocks
      [] handler = "send_transaction" -> SendLocks
      [] handler = "receive_blockchain" -> ReplaceLocks
      [] handler = "receive_transaction" -> <<"transaction_pool">>
      [] OTHER -> <<>>

\* After its last write guard a mining handler generates the block; the
\* others run add_to_transaction_pool or the replacement.
AfterLocks(handler) == IF handler \in MiningHandlers THEN "generate" ELSE "run"

\* A request or a message arrives on an idle thread.
enter(t, handler) ==
    /\ worker[t] = Idle
    /\ worker' = [worker EXCEPT ![t] =
           [handler |-> handler,
            pc |-> IF ReadFirst(handler) # <<>> THEN "read" ELSE "lock",
            todo |-> WriteOrder(handler), held |-> <<>>, nonce |-> 0]]
    /\ UNCHANGED <<guards, node_vars>>

\* lock.read().unwrap().clone(): waits while a writer holds the lock.  For a
\* Blockchain message get_is_replace_chain then says whether receive goes
\* on to the write locks.
read_clone(t) ==
    /\ worker[t].pc = "read"
    /\ guards[ReadFirst(worker[t].handler)[1]] = Free
    /\ \E replace \in BOOLEAN :
        /\ worker[t].handler # "receive_blockchain" => replace
        /\ worker' = [worker EXCEPT ![t].pc =
               IF worker[t].todo = <<>> \/ ~replace THEN "run" ELSE "lock"]
    /\ UNCHANGED <<guards, node_vars>>

\* lock.write().unwrap(): waits while another thread holds the guard.
write_lock(t) ==
    /\ worker[t].pc = "lock"
    /\ guards[Head(worker[t].todo)] = Free
    /\ guards' = [guards EXCEPT ![Head(worker[t].todo)] = t]
    /\ worker' = [worker EXCEPT
           ![t].held = Append(worker[t].held, Head(worker[t].todo)),
           ![t].todo = Tail(worker[t].todo),
           ![t].pc = IF Tail(worker[t].todo) = <<>> THEN AfterLocks(worker[t].handler)
                     ELSE "lock"]
    /\ UNCHANGED node_vars

\* One turn of the loop of Block::generate: the hash of this nonce meets the
\* difficulty, or the nonce goes up by one.
generate_nonce(t) ==
    /\ worker[t].pc = "generate"
    /\ \E matches \in BOOLEAN :
        /\ worker[t].nonce = MaxZeroBits => matches
        /\ worker' = [worker EXCEPT
               ![t].pc = IF matches THEN "run" ELSE "generate",
               ![t].nonce = IF matches THEN worker[t].nonce ELSE worker[t].nonce + 1]
    /\ UNCHANGED <<guards, node_vars>>

\* The handler returns: its guards are dropped.
leave(t) ==
    /\ worker[t].pc = "run"
    /\ guards' = [l \in Locks |-> IF guards[l] = t THEN Free ELSE guards[l]]
    /\ worker' = [worker EXCEPT ![t] = Idle]
    /\ UNCHANGED node_vars

NextLocks ==
    \/ \E t \in Threads : \E handler \in Handlers(t) : enter(t, handler)
    \/ \E t \in Threads : read_clone(t)
    \/ \E t \in Threads : write_lock(t)
    \/ \E t \in Threads : generate_nonce(t)
    \/ \E t \in Threads : leave(t)

SpecLocks == Init /\ [][NextLocks]_vars

\* ------------------------------------------------- socket.rs: the broker
\* What the broker and the connection tasks leave alone.
store_vars == <<blockchain, unspent_tx_outs, transaction_pool, now, overflow_checks,
                poisoned, reader, last, probe, lock_vars, network_vars, dials>>

\* payload.rs, Payload::serialize: the JSON of the type and of the JSON of
\* the data.
Payload_serialize(type, data) == Json([type |-> type, data |-> Json(data)])

\* Url::parse(peer.as_str()) is Ok.
Url_parses(url) == url # BadUrl

\* The keys of the broker's map.
Registered == {p \in PeerIds : connections[p] # NoConnection}

\* HashMap::iter_mut: the entries, in an order of the map's choosing.
Orders(S) ==
    {order \in [1..Cardinality(S) -> S] :
        \A i, j \in 1..Cardinality(S) : i # j => order[i] # order[j]}

Handled(event, panicked, connected) ==
    [panicked |-> panicked, handled |-> event, connected |-> connected]

NothingWritten == [q \in PeerIds |-> <<>>]

\* The for loop of the Blockchain and Transaction arms over the entries in
\* `order`: the entry of peer p is passed over, every sink of another entry
\* is sent the frame, and a send that returns Err (the peers of `failing`)
\* makes expect panic.
RECURSIVE send_to_connections(_, _, _, _, _)
send_to_connections(order, p, frame, failing, out) ==
    IF order = <<>> THEN [panic |-> FALSE, written |-> out]
    ELSE LET walk(peer, conn) ==
                 IF peer = p THEN send_to_connections(Tail(order), p, frame, failing, out)
                 ELSE IF peer \in failing /\ (conn.listener # <<>> \/ conn.connector # <<>>)
                      THEN [panic |-> TRUE, written |-> out]
                 ELSE send_to_connections(Tail(order), p, frame, failing,
                          [out EXCEPT ![peer] =
                              out[peer]
                              \o (IF conn.listener # <<>> THEN <<frame>> ELSE <<>>)
                              \o (IF conn.connector # <<>> THEN <<frame>> ELSE <<>>)])
         IN  walk(Head(order), connections[Head(order)])

\* rx.recv().await returned an event of this type.
Received(type) ==
    /\ ~broker.panicked
    /\ events # <<>>
    /\ Head(events).type = type

\* BroadcastEvents::Join(conn): connections.insert(conn.peer.clone(), conn).
broadcast_join ==
    /\ Received("Join")
    /\ events' = Tail(events)
    /\ connections' = [connections EXCEPT ![Head(events).payload.peer] = Head(events).payload]
    /\ written' = NothingWritten
    /\ broker' = Handled(Head(events), FALSE, FALSE)
    /\ UNCHANGED <<tasks, store_vars>>

\* BroadcastEvents::Quit(peer): connections.remove(peer.as_str()).
broadcast_quit ==
    /\ Received("Quit")
    /\ events' = Tail(events)
    /\ connections' = [connections EXCEPT ![Head(events).payload] = NoConnection]
    /\ written' = NothingWritten
    /\ broker' = Handled(Head(events), FALSE, FALSE)
    /\ UNCHANGED <<tasks, store_vars>>

\* BroadcastEvents::Peer(peer): Url::parse(..).unwrap(), then
\* connect_async(..).await.expect("Failed to connect"), then the connect task
\* is spawned.  A text that is no URL, or a dial that fails, is a panic of
\* the broadcast task.
broadcast_peer ==
    /\ Received("Peer")
    /\ events' = Tail(events)
    /\ \E connected \in BOOLEAN :
        /\ connected => Url_parses(Head(events).payload)
        /\ tasks' = IF connected THEN [tasks EXCEPT ![Head(events).payload] = "spawned"]
                    ELSE tasks
        /\ broker' = Handled(Head(events), ~connected, connected)
    /\ written' = NothingWritten
    /\ UNCHANGED <<connections, store_vars>>

\* BroadcastEvents::Blockchain(blockchain, except) and
\* BroadcastEvents::Transaction(transactions, except).  A send can return Err
\* only on a connection whose peer has gone.
broadcast_snapshot ==
    /\ \/ Received("Blockchain")
       \/ Received("Transaction")
    /\ events' = Tail(events)
    /\ \E order \in Orders(Registered) :
       \E failing \in SUBSET {q \in Registered : tasks[q] = "ended"} :
        LET sending(event) ==
                LET ended(done) ==
                        /\ written' = done.written
                        /\ broker' = Handled(event, done.panic, FALSE)
                IN  ended(send_to_connections(order,
                              IF event.except = <<>> THEN "" ELSE event.except[1],
                              Payload_serialize(event.type, event.payload),
                              failing, NothingWritten))
        IN  sending(Head(events))
    /\ UNCHANGED <<connections, tasks, store_vars>>

\* listen: a peer dialled this node; the task of its connection sends
\* Join(Connection::new(peer, Some(sender), None)) and enters its loop.
listen(peer) ==
    /\ tasks[peer] = "none"
    /\ Len(events) < MaxQueue
    /\ tasks' = [tasks EXCEPT ![peer] = "open"]
    /\ events' = channel_send(events,
           BroadcastEvents("Join", Connection(peer, <<"sink">>, <<>>), <<>>))
    /\ UNCHANGED <<connections, written, broker, store_vars>>

\* connect: the task the broker spawned after its dial sends
\* Join(Connection::new(peer, None, Some(sender))) and enters its loop.
connect(peer) ==
    /\ tasks[peer] = "spawned"
    /\ Len(events) < MaxQueue
    /\ tasks' = [tasks EXCEPT ![peer] = "open"]
    /\ events' = channel_send(events,
           BroadcastEvents("Join", Connection(peer, <<>>, <<"sink">>), <<>>))
    /\ UNCHANGED <<connections, written, broker, store_vars>>

\* What receiver.next().await gives the loop of listen and of connect: a text
\* frame (one that is the JSON of a Payload with decodable data, one that is
\* not the JSON of a Payload, one whose data is not the JSON of a chain or of
\* a transaction list), a frame that is neither text nor close, a close
\* frame, Some(Err(..)), or None.
Frames == {"text", "not_payload", "bad_data", "binary", "close", "error", "end"}
PayloadTypes == {"Blockchain", "Transaction"}

\* receive, as far as the locks and its unwraps go: whether the task panics
\* and which locks are poisoned afterwards.  Payload::deserialize unwraps
\* before any lock is taken.  The Blockchain arm clones the chain under a
\* read guard it drops at once, decodes the data (unwrap), and takes the
\* write guards of ReplaceLocks when it replaces.  The Transaction arm clones
\* the unspent outputs, takes the write guard of the pool and only then
\* decodes the data (unwrap).  Each arm sends its event with
\* tx.send(..).unwrap() while its write guards are held.
receive_unwraps(msg, type, sends, p) ==
    LET ended(panic, poisoned_) ==
            [panic |-> panic, poisoned |-> poisoned_, sends |-> sends /\ ~panic]
        send(locks, guards_) ==
            IF locks.panic THEN ended(TRUE, locks.poisoned)
            ELSE IF sends /\ channel_closed THEN ended(TRUE, p \cup guards_)
            ELSE ended(FALSE, p)
    IN  IF msg = "not_payload" THEN ended(TRUE, p)
        ELSE IF type = "Blockchain"
        THEN IF "blockchain" \in p \/ msg = "bad_data" THEN ended(TRUE, p)
             ELSE IF sends THEN send(LockAll(ReplaceLocks, {}, p), {"blockchain", "unspent_tx_outs"})
             ELSE ended(FALSE, p)
        ELSE IF "unspent_tx_outs" \in p \/ "transaction_pool" \in p THEN ended(TRUE, p)
        ELSE IF msg = "bad_data" THEN ended(TRUE, p \cup {"transaction_pool"})
        ELSE send(LockAll(<<"transaction_pool">>, {}, p), {"transaction_pool"})

\* One turn of the loop of listen or connect.  A text frame goes to receive:
\* a panic there is a panic of the task, inside the loop; a decoded text may
\* make receive send Blockchain(chain, Some(peer)) or
\* Transaction(pool, Some(peer)).  Leaving the loop sends Quit(peer).
next_message(peer) ==
    /\ tasks[peer] = "open"
    /\ \E msg \in Frames :
        \/ /\ msg \in {"text", "not_payload", "bad_data"}
           /\ \E type \in PayloadTypes : \E relayed \in BOOLEAN :
               LET received(unwraps) ==
                       /\ poisoned' = unwraps.poisoned
                       /\ tasks' = IF unwraps.panic THEN [tasks EXCEPT ![peer] = "panicked"]
                                   ELSE tasks
                       /\ IF unwraps.sends
                          THEN /\ Len(events) < MaxQueue
                               /\ events' = Append(events,
                                      BroadcastEvents(type,
                                          IF type = "Blockchain" THEN blockchain
                                          ELSE transaction_pool,
                                          <<peer>>))
                          ELSE UNCHANGED events
               IN  received(receive_unwraps(msg, type, relayed, poisoned))
        \/ /\ msg = "binary"
           /\ UNCHANGED <<tasks, events, poisoned>>
        \/ /\ msg \in {"close", "error", "end"}
           /\ Len(events) < MaxQueue
           /\ tasks' = [tasks EXCEPT ![peer] = "ended"]
           /\ events' = channel_send(events, BroadcastEvents("Quit", peer, <<>>))
           /\ UNCHANGED poisoned
    /\ UNCHANGED <<connections, written, broker, blockchain, unspent_tx_outs,
                   transaction_pool, now, overflow_checks, reader, last, probe, lock_vars,
                   network_vars, dials>>

\* POST /add-peer: broadcast_sender.send(BroadcastEvents::Peer(peer)).  Each
\* URL is given while no connection to it has been asked for.
add_peer(peer) ==
    /\ tasks[peer] = "none"
    /\ \A i \in 1..Len(events) : ~(events[i].type = "Peer" /\ events[i].payload = peer)
    /\ Len(events) < MaxQueue
    /\ events' = channel_send(events, BroadcastEvents("Peer", peer, <<>>))
    /\ UNCHANGED <<connections, tasks, written, broker, store_vars>>

NextBroker ==
    \/ \E peer \in Accepted : listen(peer)
    \/ \E peer \in Urls : connect(peer)
    \/ \E peer \in PeerIds : next_message(peer)
    \/ \E peer \in Urls : add_peer(peer)
    \/ mine_block
    \/ broadcast_join
    \/ broadcast_quit
    \/ broadcast_peer
    \/ broadcast_snapshot

SpecBroker == Init /\ [][NextBroker]_vars

\* The broadcast task and the spawned connection tasks run on the workers of
\* the tokio runtime: an event in the channel is handled, a spawned task starts.
SpecBrokerLive ==
    /\ SpecBroker
    /\ WF_vars(broadcast_join)
    /\ WF_vars(broadcast_quit)
    /\ WF_vars(broadcast_peer)
    /\ WF_vars(broadcast_snapshot)
    /\ \A peer \in Urls : WF_vars(connect(peer))

\* --------------------------------------- socket.rs: one URL dialled again
\* POST /add-peer with a URL, whether or not it was given before.
dial_add_peer(url) ==
    /\ Len(dials) + Cardinality({i \in 1..Len(events) : events[i].type = "Peer"}) < MaxDials
    /\ Len(events) < MaxQueue
    /\ events' = channel_send(events, BroadcastEvents("Peer", url, <<>>))
    /\ UNCHANGED <<connections, tasks, written, broker, dials, store_vars>>

\* BroadcastEvents::Peer(peer), as broadcast_peer: the connect task spawned
\* after the dial is the next of dials.
dial_broadcast_peer ==
    /\ Received("Peer")
    /\ events' = Tail(events)
    /\ \E connected \in BOOLEAN :
        /\ connected => Url_parses(Head(events).payload)
        /\ dials' = IF connected
                    THEN Append(dials, [peer |-> Head(events).payload, state |-> "spawned",
                                        join |-> FALSE])
                    ELSE dials
        /\ broker' = Handled(Head(events), ~connected, connected)
    /\ written' = NothingWritten
    /\ UNCHANGED <<connections, tasks, blockchain, unspent_tx_outs, transaction_pool, now,
                   overflow_checks, poisoned, reader, last, probe, lock_vars, network_vars>>

\* connect, task d: Join(Connection::new(peer, None, Some(sender))) is sent
\* and the loop entered; the sink of task d is written d.
dial_connect(d) ==
    /\ dials[d].state = "spawned"
    /\ Len(events) < MaxQueue
    /\ dials' = [dials EXCEPT ![d].state = "open", ![d].join = ~channel_closed]
    /\ events' = channel_send(events,
           BroadcastEvents("Join", Connection(dials[d].peer, <<>>, <<d>>), <<>>))
    /\ UNCHANGED <<connections, tasks, written, broker, blockchain, unspent_tx_outs,
                   transaction_pool, now, overflow_checks, poisoned, reader, last, probe,
                   lock_vars, network_vars>>

\* connect, task d: receiver.next().await gave a close frame, an error or
\* None; the loop is left and Quit(peer) is sent (unwrap: a closed channel is
\* a panic of the task).
dial_end(d) ==
    /\ dials[d].state = "open"
    /\ Len(events) < MaxQueue
    /\ dials' = [dials EXCEPT ![d].state = IF channel_closed THEN "panicked" ELSE "ended"]
    /\ events' = channel_send(events, BroadcastEvents("Quit", dials[d].peer, <<>>))
    /\ UNCHANGED <<connections, tasks, written, broker, blockchain, unspent_tx_outs,
                   transaction_pool, now, overflow_checks, poisoned, reader, last, probe,
                   lock_vars, network_vars>>

NextDials ==
    \/ \E url \in Urls : dial_add_peer(url)
    \/ dial_broadcast_peer
    \/ \E d \in 1..Len(dials) : dial_connect(d)
    \/ \E d \in 1..Len(dials) : dial_end(d)
    \/ \E peer \in Accepted : listen(peer)
    \/ broadcast_join
    \/ broadcast_quit

SpecDials == Init /\ [][NextDials]_vars

\* ----------------------------------------------- a network of three nodes
\* The private key files of the nodes: node 1 holds the key of the genesis
\* address, so it has an output to spend from the start.
NodeWallet(n) == Wallet(IF n = 1 THEN GenesisKey ELSE IF n = 2 THEN WalletKey ELSE PeerKey)

\* The data of a text frame: the chain or the pool of the event.
Frame(event) == [type |-> event.type, data |-> event.payload]

\* routes.rs mine_block at node n: the block of the coinbase and the pool is
\* added and Blockchain(chain, None) is sent to the node's channel.
network_mine_block(n) ==
    LET same == nodes[n]
        generated == Block_generate_with_coinbase_transaction(
                         same.blockchain, same.transaction_pool, NodeWallet(n), now,
                         overflow_checks)
        send(added) ==
            IF added.panic \/ added.err # 0 THEN UNCHANGED <<nodes, channels>>
            ELSE /\ nodes' = [nodes EXCEPT ![n] = added.stores]
                 /\ channels' = [channels EXCEPT ![n] =
                        Append(@, BroadcastEvents("Blockchain", added.stores.blockchain, <<>>))]
    IN  /\ origins < MaxOrigins
        /\ Len(same.blockchain) < MaxChainLen
        /\ origins' = origins + 1
        /\ IF generated.panic \/ generated.err # 0 THEN UNCHANGED <<nodes, channels>>
           ELSE send(add_block(same.blockchain, same.unspent_tx_outs, same.transaction_pool,
                               generated.val, now, overflow_checks))
        /\ UNCHANGED <<blockchain, unspent_tx_outs, transaction_pool, now, overflow_checks,
                       poisoned, reader, events, last, probe, lock_vars, broker_vars, wires,
                       dials>>

\* routes.rs send_transaction at node n: the transaction is created, added to
\* the pool and Transaction(pool, None) is sent to the node's channel.
network_send_transaction(n, address, amount) ==
    LET same == nodes[n]
        send(added) ==
            IF added.panic \/ added.err # 0 THEN UNCHANGED <<nodes, channels>>
            ELSE /\ nodes' = [nodes EXCEPT ![n].transaction_pool = added.pool]
                 /\ channels' = [channels EXCEPT ![n] =
                        Append(@, BroadcastEvents("Transaction", added.pool, <<>>))]
        add(tx) ==
            IF tx.panic \/ tx.err # 0 THEN UNCHANGED <<nodes, channels>>
            ELSE send(add_to_transaction_pool(tx.val, same.transaction_pool,
                                              same.unspent_tx_outs, overflow_checks))
    IN  /\ origins < MaxOrigins
        /\ origins' = origins + 1
        /\ add(create_transaction(address, amount, NodeWallet(n), same.unspent_tx_outs,
                                  overflow_checks))
        /\ UNCHANGED <<blockchain, unspent_tx_outs, transaction_pool, now, overflow_checks,
                       poisoned, reader, events, last, probe, lock_vars, broker_vars, wires,
                       dials>>

\* socket.rs broadcast at node n, the Blockchain and Transaction arms: the
\* oldest event of the channel is written to every connection but except.
network_broadcast(n) ==
    LET event == Head(channels[n]) IN
    /\ channels[n] # <<>>
    /\ channels' = [channels EXCEPT ![n] = Tail(@)]
    /\ wires' = [w \in Wires |->
                    IF w[1] = n /\ <<w[2]>> # event.except
                    THEN Append(wires[w], Frame(event)) ELSE wires[w]]
    /\ UNCHANGED <<blockchain, unspent_tx_outs, transaction_pool, now, overflow_checks,
                   poisoned, reader, events, last, probe, lock_vars, broker_vars, nodes,
                   origins, dials>>

\* socket.rs receive at node to, the oldest frame node from wrote: a chain
\* that get_is_replace_chain prefers replaces the chain and the unspent
\* outputs and is sent on as Blockchain(chain, Some(from)); of a transaction
\* list every transaction is offered to the pool, and every admitted one is
\* sent on as Transaction(pool, Some(from)).  A panic ends the reader with the
\* stores as they were when it struck.
network_receive(from, to) ==
    LET message == Head(wires[<<from, to>>])
        same == nodes[to]
        relayed(sent) == [i \in 1..Len(sent) |-> [sent[i] EXCEPT !.except = <<from>>]]
        replace(replayed) ==
            IF replayed.panic \/ replayed.err # 0 THEN UNCHANGED <<nodes, channels>>
            ELSE /\ nodes' = [nodes EXCEPT ![to].blockchain = message.data,
                                           ![to].unspent_tx_outs = replayed.val]
                 /\ channels' = [channels EXCEPT ![to] =
                        Append(@, BroadcastEvents("Blockchain", message.data, <<from>>))]
        decide(replace_) ==
            IF replace_.panic \/ ~replace_.val THEN UNCHANGED <<nodes, channels>>
            ELSE replace(get_unspent_tx_outs(message.data, overflow_checks))
        add(offered) ==
            /\ nodes' = [nodes EXCEPT ![to].transaction_pool = offered.pool]
            /\ channels' = [channels EXCEPT ![to] = @ \o relayed(offered.events)]
    IN  /\ wires[<<from, to>>] # <<>>
        /\ wires' = [wires EXCEPT ![<<from, to>>] = Tail(@)]
        /\ IF message.type = "Blockchain"
           THEN decide(get_is_replace_chain(same.blockchain, message.data, now,
                                            overflow_checks))
           ELSE add(offer_transactions(message.data, same.transaction_pool,
                                       same.unspent_tx_outs, <<>>, overflow_checks))
        /\ UNCHANGED <<blockchain, unspent_tx_outs, transaction_pool, now, overflow_checks,
                       poisoned, reader, events, last, probe, lock_vars, broker_vars, origins,
                       dials>>

NextNetwork ==
    \/ \E n \in Nodes : network_mine_block(n)
    \/ \E n \in Nodes : \E amount \in Amounts : network_send_transaction(n, PeerAddress, amount)
    \/ \E n \in Nodes : network_broadcast(n)
    \/ \E w \in Wires : network_receive(w[1], w[2])

SpecNetwork == Init /\ [][NextNetwork]_vars

\* Every task of the runtime that has an event or a frame to take is run.
SpecNetworkLive ==
    /\ SpecNetwork
    /\ \A n \in Nodes : WF_vars(network_broadcast(n))
    /\ \A w \in Wires : WF_vars(network_receive(w[1], w[2]))

\* ------------------------------------------------------------------ claims
\* The spec's accumulated_work: the sum of 2^difficulty over every block.
RECURSIVE accumulated_work(_)
accumulated_work(chain) ==
    IF chain = <<>> THEN 0 ELSE 2 ^ Head(chain).difficulty + accumulated_work(Tail(chain))

\* The spec's replay: the transactions of every block applied in order to
\* the empty set, each application removing the outputs the block's inputs
\* reference and adding one entry per output.
RECURSIVE replay(_)
replay(chain) ==
    IF chain = <<>> THEN <<>>
    ELSE update_unspent_tx_outs(chain[Len(chain)].data, replay(SubSeq(chain, 1, Len(chain) - 1)))

\* C1: in every state a reader can observe (between handlers, no writer holds
\* a lock), after any interleaving of local appends and remote adoptions,
\* the UTXO set equals the replay of the transactions of every block of the
\* current chain from genesis.
C1_UtxoIsReplayOfChain == unspent_tx_outs = replay(blockchain)

\* C1 witness: a block mined locally on top of an adopted remote chain.
C1_MinedOnAdoptedChain ==
    /\ Len(blockchain) = 3
    /\ blockchain[2] = RemoteA1
    /\ last = Respond("mine_block", FALSE, 0)
    /\ Len(unspent_tx_outs) = 3

\* The step in which the reader replaces the chain.
Adopts ==
    /\ reader.pc = "replace"
    /\ last' = Respond("replace_blockchain", FALSE, 0)
    /\ blockchain' = reader.new_blockchain

\* C2: whenever the reader adopts a remote chain, the accumulated work of the
\* node's chain right after the adoption is strictly greater than right
\* before it, whatever local appends ran between the check and the write.
C2_AdoptionIncreasesWork ==
    [][Adopts => accumulated_work(blockchain') > accumulated_work(blockchain)]_vars

\* C2 witness: the reader has adopted the remote chain of two blocks and has
\* queued its broadcast to every peer but the sender.
C2_AdoptedOverMinedChain ==
    /\ last = Respond("replace_blockchain", FALSE, 0)
    /\ blockchain = <<genesis_block, RemoteA1>>
    /\ events # <<>>
    /\ events[1].except = <<Peer>>

\* C5: in every reachable state the chain starts with the genesis block,
\* block i has index i, every later block's previous_hash is the hash of the
\* block before it, and every non-genesis block's hash is its recomputed
\* hash and has at least `difficulty` leading zero bits.
C5_ChainWellFormed ==
    /\ blockchain[1] = genesis_block
    /\ \A i \in 1..Len(blockchain) : blockchain[i].index = i - 1
    /\ \A i \in 2..Len(blockchain) :
          /\ blockchain[i].previous_hash = blockchain[i - 1].hash
          /\ blockchain[i].hash = get_calculated_hash(blockchain[i])
          /\ convert_to_binary_from_hex(blockchain[i].hash) >= blockchain[i].difficulty

\* C5 witness: a chain that holds an adopted remote block of difficulty 1
\* and a block mined locally on it.
C5_MinedOnAdoptedBlock ==
    /\ Len(blockchain) = 3
    /\ blockchain[2] = RemoteB1
    /\ last = Respond("mine_block", FALSE, 0)

\* The exact sum of a sequence of amounts.
RECURSIVE Sum(_)
Sum(amounts) == IF amounts = <<>> THEN 0 ELSE Head(amounts) + Sum(Tail(amounts))

\* The amounts of the unspent outputs the inputs of tx reference add up to
\* the amounts of its outputs.
Conserves(tx, unspent) ==
    Sum([i \in 1..Len(tx.tx_ins) |-> get_tx_in_amount(tx.tx_ins[i], unspent)])
        = Sum([j \in 1..Len(tx.tx_outs) |-> tx.tx_outs[j].amount])

\* The unspent outputs block k of the chain was applied to.
UnspentBefore(k) == get_unspent_tx_outs(SubSeq(blockchain, 1, k - 1), overflow_checks).val

\* C6: in every block of the chain every non-coinbase transaction has the sum
\* of the amounts its inputs reference equal to the sum of its output
\* amounts, and the transaction at position 0 is a coinbase with exactly one
\* output of exactly 50.
C6_Conservation ==
    \A k \in 1..Len(blockchain) :
        /\ blockchain[k].data # <<>>
        /\ get_is_valid_coinbase_tx(<<blockchain[k].data[1]>>, blockchain[k].index)
        /\ Len(blockchain[k].data[1].tx_outs) = 1
        /\ blockchain[k].data[1].tx_outs[1].amount = COINBASE_AMOUNT
        /\ \A j \in 2..Len(blockchain[k].data) :
              Conserves(blockchain[k].data[j], UnspentBefore(k))

\* C6 witness: an accepted block that holds a transfer next to its coinbase.
C6_BlockWithTransfer ==
    /\ Len(blockchain) >= 2
    /\ Len(blockchain[Len(blockchain)].data) = 2
    /\ blockchain[Len(blockchain)].data[2].tx_ins # <<>>
    /\ last.err = 0 /\ ~last.panic

\* Two transactions have an input with the same (tx_out_id, tx_out_index).
ShareInput(a, b) ==
    \E i \in 1..Len(a.tx_ins) : \E j \in 1..Len(b.tx_ins) :
        /\ a.tx_ins[i].tx_out_id = b.tx_ins[j].tx_out_id
        /\ a.tx_ins[i].tx_out_index = b.tx_ins[j].tx_out_index

\* C8: in every reachable state every transaction of the mempool passes
\* validate_tx against the current UTXO set and no two transactions of the
\* mempool share an input pair.
C8_MempoolValid ==
    /\ \A i \in 1..Len(transaction_pool) :
          get_is_valid_transaction(transaction_pool[i], unspent_tx_outs, overflow_checks)
              = Ok(TRUE)
    /\ \A i, j \in 1..Len(transaction_pool) :
          i < j => ~ShareInput(transaction_pool[i], transaction_pool[j])

\* C8 witness: a remote chain adopted while the mempool holds a transaction.
C8_AdoptedWithPool ==
    /\ last = Respond("replace_blockchain", FALSE, 0)
    /\ transaction_pool # <<>>

\* The checks of the spec's append(block), steps 1 to 5, on exact integers.
PassesBlockChecks(new_block, latest) ==
    /\ new_block.hash # <<>> /\ new_block.previous_hash # <<>>
    /\ new_block.index = latest.index + 1
    /\ new_block.previous_hash = latest.hash
    /\ latest.timestamp - TIMESTAMP_INTERVAL < new_block.timestamp
    /\ new_block.timestamp < now + TIMESTAMP_INTERVAL
    /\ new_block.hash = get_calculated_hash(new_block)
    /\ convert_to_binary_from_hex(new_block.hash) >= new_block.difficulty

\* Steps 1 to 6: the block checks and the application of the transactions.
PassesChecks(new_block, latest, unspent) ==
    /\ PassesBlockChecks(new_block, latest)
    /\ process_transactions(new_block.data, unspent, new_block.index, overflow_checks)
           = ROk(update_unspent_tx_outs(new_block.data, unspent))

\* C4: add_block is atomic.  A block that fails a check makes it return an
\* error with the chain, the UTXO set and the mempool exactly as before; a
\* block that passes them is appended, the UTXO set becomes the applied set
\* and the mempool the reconciled pool.
C4_AddBlockAtomic ==
    [][last'.op = "add_block" /\ probe'.fn = "add_block" =>
        IF PassesChecks(probe'.args[1], get_latest_block(blockchain), unspent_tx_outs)
        THEN /\ last' = Respond("add_block", FALSE, 0)
             /\ blockchain' = Append(blockchain, probe'.args[1])
             /\ unspent_tx_outs' = update_unspent_tx_outs(probe'.args[1].data, unspent_tx_outs)
             /\ transaction_pool' = update_transaction_pool(transaction_pool, unspent_tx_outs')
        ELSE /\ ~last'.panic
             /\ last'.err # 0
             /\ UNCHANGED <<blockchain, unspent_tx_outs, transaction_pool>>]_vars

\* C4 witness: add_block has returned error 1000 and the mempool is not empty.
C4_RejectedWithPool ==
    /\ last = Respond("add_block", FALSE, 1000)
    /\ transaction_pool # <<>>

\* The incoming chain starts with the given genesis block and each of its
\* later blocks passes the block checks on the block before it.
valid_chain(incoming, genesis) ==
    /\ incoming # <<>>
    /\ incoming[1] = genesis
    /\ \A i \in 2..Len(incoming) : PassesBlockChecks(incoming[i], incoming[i - 1])

\* C3: get_is_replace_chain(local, incoming) is true if and only if incoming
\* is a valid chain whose first block is local's genesis and
\* accumulated_work(local) < accumulated_work(incoming); so it is false in
\* both directions for chains of equal work and never chooses a chain with
\* an invalid block.
C3_ReplaceIffValidAndMoreWork ==
    probe.fn = "get_is_replace_chain" /\ probe.done =>
        ((probe.result = Ok(TRUE)) <=>
            /\ valid_chain(probe.args[2], probe.args[1][1])
            /\ accumulated_work(probe.args[1]) < accumulated_work(probe.args[2]))

\* C3 witness: two single-child chains at difficulty 1 on the same genesis
\* have been compared and the answer was false.
C3_EqualWorkCompared ==
    /\ probe = [fn |-> "get_is_replace_chain", done |-> TRUE, result |-> Ok(FALSE),
                args |-> << <<genesis_block, RemoteB1>>, <<genesis_block, RemoteC1>> >>]
    /\ RemoteB1 # RemoteC1

EqualPairs(tx_ins) ==
    \E i, j \in 1..Len(tx_ins) :
        /\ i < j
        /\ tx_ins[i].tx_out_id = tx_ins[j].tx_out_id
        /\ tx_ins[i].tx_out_index = tx_ins[j].tx_out_index

\* C7: has_duplicates reports a duplicate exactly when two inputs of the
\* block, of one transaction or of two, have equal (tx_out_id, tx_out_index)
\* pairs.
C7_DuplicatesAreEqualPairs ==
    probe.fn = "has_duplicates" /\ probe.done =>
        (probe.result <=> EqualPairs(flatten_tx_ins(probe.args[1])))

\* C7 witness: two transactions of one input each, with equal pairs, have
\* been reported as a duplicate.
C7_DuplicateAcrossTransactions ==
    /\ probe.fn = "has_duplicates" /\ probe.done
    /\ probe.result = TRUE
    /\ Len(probe.args[1]) = 2
    /\ EqualPairs(flatten_tx_ins(probe.args[1]))

\* The entries of unspent with exactly the pair of tx_in as their key.
Referenced(tx_in, unspent) ==
    { i \in 1..Len(unspent) :
        /\ unspent[i].tx_out_id = tx_in.tx_out_id
        /\ unspent[i].tx_out_index = tx_in.tx_out_index }

\* validate_tx as the spec words it, on exact integers.
validate_tx(tx, unspent) ==
    /\ tx.id = get_transaction_id(tx.tx_ins, tx.tx_outs)
    /\ \A i \in 1..Len(tx.tx_ins) :
        /\ Referenced(tx.tx_ins[i], unspent) # {}
        /\ \A e \in Referenced(tx.tx_ins[i], unspent) :
            /\ IsSignature(tx.tx_ins[i].signature)
            /\ IsPublicKey(unspent[e].address)
            /\ verify_ecdsa(tx.id, tx.tx_ins[i].signature, unspent[e].address)
    /\ Conserves(tx, unspent)

\* C9: get_is_valid_transaction returns true only if tx.id is the recomputed
\* id, the exact pair of every input is the key of an entry of the unspent
\* outputs, the input's signature over tx.id verifies under the address of
\* that entry, and the referenced amounts add up to the output amounts.
C9_ValidOnlyIfValidateTx ==
    probe.fn = "get_is_valid_transaction" /\ probe.done /\ probe.result = Ok(TRUE) =>
        validate_tx(probe.args[1], probe.args[2])

\* C9 witness: the signed transfer of the genesis output has been found
\* valid against the genesis output.
C9_SignedTransferValid ==
    /\ probe.fn = "get_is_valid_transaction" /\ probe.done
    /\ probe.result = Ok(TRUE)
    /\ probe.args[1] = SpendGenesisTx
    /\ Len(probe.args[2]) = 1

\* validate_coinbase as the spec words it.
validate_coinbase(transaction, block_index) ==
    /\ transaction # <<>>
    /\ Len(transaction[1].tx_ins) = 1
    /\ transaction[1].tx_ins[1].tx_out_id = <<>>
    /\ transaction[1].tx_ins[1].tx_out_index = block_index
    /\ Len(transaction[1].tx_outs) = 1
    /\ transaction[1].tx_outs[1].amount = COINBASE_AMOUNT
    /\ transaction[1].id = get_transaction_id(transaction[1].tx_ins, transaction[1].tx_outs)

\* C10: get_is_valid_coinbase_tx is true if and only if the transaction is
\* there, has exactly one input, with an empty tx_out_id and tx_out_index
\* equal to block_index, exactly one output, of amount 50, and an id equal to
\* its recomputed id.
C10_CoinbaseIffValidateCoinbase ==
    probe.fn = "get_is_valid_coinbase_tx" /\ probe.done =>
        (probe.result <=> validate_coinbase(probe.args[1], probe.args[2]))

\* C10 witness: a missing transaction has been found invalid.
C10_MissingCoinbaseInvalid ==
    /\ probe.fn = "get_is_valid_coinbase_tx" /\ probe.done
    /\ probe.args[1] = <<>>
    /\ probe.result = FALSE

\* An input of tx has the pair of an input of a transaction of the pool.
CollidesWithPool(tx, pool) == \E i \in 1..Len(pool) : ShareInput(tx, pool[i])

\* C11: add_to_transaction_pool returns error 4000 when tx fails validate_tx
\* and error 4001 when an input of tx has the pair of an input already in
\* the pool, in both cases with the pool unchanged; otherwise it succeeds and
\* the pool is the old pool with tx appended at the end.
C11_AddToPoolErrors ==
    [][last'.op = "add_to_transaction_pool" /\ probe'.fn = "add_to_transaction_pool" =>
        IF ~validate_tx(probe'.args[1], unspent_tx_outs)
        THEN /\ last' = Respond("add_to_transaction_pool", FALSE, 4000)
             /\ transaction_pool' = transaction_pool
        ELSE IF CollidesWithPool(probe'.args[1], transaction_pool)
        THEN /\ last' = Respond("add_to_transaction_pool", FALSE, 4001)
             /\ transaction_pool' = transaction_pool
        ELSE /\ last' = Respond("add_to_transaction_pool", FALSE, 0)
             /\ transaction_pool' = Append(transaction_pool, probe'.args[1])]_vars

\* C11 witness: a transaction with an input already in the pool has been
\* refused with error 4001.
C11_CollisionRefused ==
    /\ last = Respond("add_to_transaction_pool", FALSE, 4001)
    /\ probe.fn = "add_to_transaction_pool"
    /\ CollidesWithPool(probe.args[1], transaction_pool)

\* Every input of tx has its pair as the key of an entry of unspent.
InputsPresent(tx, unspent) ==
    \A i \in 1..Len(tx.tx_ins) : Referenced(tx.tx_ins[i], unspent) # {}

\* C12: after every successful block append the mempool is exactly the
\* transactions of the old mempool all of whose inputs have their pair in
\* the new UTXO set, in their original order, so no mempool transaction
\* references a consumed or missing output.
C12_PoolReconciledOnAppend ==
    [][last' = Respond("add_block", FALSE, 0) /\ blockchain' # blockchain =>
        /\ transaction_pool' =
               SelectSeq(transaction_pool, LAMBDA tx : InputsPresent(tx, unspent_tx_outs'))
        /\ \A i \in 1..Len(transaction_pool') :
               InputsPresent(transaction_pool'[i], unspent_tx_outs')]_vars

\* C12 witness: a block mined from a mempool of two transactions has been
\* appended; the first, whose input the block consumed, is gone and the
\* second is still there.
C12_ConsumedRemovedOtherKept ==
    /\ last = Respond("add_block", FALSE, 0)
    /\ probe.fn = "add_block"
    /\ Len(probe.args[1].data) = 3
    /\ probe.args[1].data[2] = SpendGenesisTx
    /\ transaction_pool = <<probe.args[1].data[3]>>

\* The spec's retarget rule on exact integers.
current_difficulty(chain) ==
    LET last_ == chain[Len(chain)]
        prev == chain[(Len(chain) - DIFFICULTY_ADJUSTMENT_INTERVAL) + 1]
        taken == last_.timestamp - prev.timestamp
    IN  IF last_.index = 0 \/ last_.index % DIFFICULTY_ADJUSTMENT_INTERVAL # 0
        THEN last_.difficulty
        ELSE IF taken < 50 THEN prev.difficulty + 1
        ELSE IF taken > 200 THEN prev.difficulty - 1
        ELSE prev.difficulty

\* C13: get_difficulty(chain) is last.difficulty when last.index is 0 or not
\* a multiple of 10; otherwise, with prev = chain[len - 10] and taken =
\* last.timestamp - prev.timestamp, it is prev.difficulty + 1 if taken < 50,
\* prev.difficulty - 1 if taken > 200 and prev.difficulty otherwise.
C13_DifficultyRetarget ==
    probe.fn = "get_difficulty" /\ probe.done =>
        probe.result = Ok(current_difficulty(probe.args[1]))

\* C13 witness: for a chain of 11 blocks of difficulty 0 whose last block
\* is less than 50 seconds after block 1, get_difficulty has returned 1.
C13_TenFastBlocks ==
    /\ probe.fn = "get_difficulty" /\ probe.done
    /\ probe.args[1] = DifficultyChain(11, 0, 0, 49)
    /\ probe.result = Ok(1)

\* C14: the timestamp check accepts a new block if and only if
\* last.timestamp - 60 < block.timestamp < now + 60 on signed integers, also
\* when last.timestamp or block.timestamp is below 60; it never aborts.
C14_TimestampBandSigned ==
    probe.fn = "get_is_valid_timestamp" /\ probe.done =>
        probe.result =
            Ok(/\ probe.args[2].timestamp - TIMESTAMP_INTERVAL < probe.args[1].timestamp
               /\ probe.args[1].timestamp < probe.args[3] + TIMESTAMP_INTERVAL)

\* C14 witness: a block 59 seconds older than its predecessor has been
\* accepted.
C14_OlderBlockAccepted ==
    /\ probe.fn = "get_is_valid_timestamp" /\ probe.done
    /\ probe.args[2].timestamp = 1059
    /\ probe.args[1].timestamp = 1000
    /\ probe.result = Ok(TRUE)

\* The step in which the reader ends the handling of a Blockchain message
\* without adopting the chain: get_is_replace_chain was not true, or the
\* replay of the chain's transactions failed.
NotAdopted ==
    \/ reader.pc = "idle" /\ last'.op = "receive_blockchain" /\ reader'.pc # "replace"
    \/ reader.pc = "replace" /\ last'.op = "replace_blockchain"
           /\ blockchain' # reader.new_blockchain

\* C15: when a received chain is not adopted the chain, the UTXO set and the
\* mempool are unchanged, no Blockchain event is emitted, the reader goes on
\* and no lock is left unusable (stated for messages that arrive while every
\* lock is usable).
C15_RejectedChainIsNoOp ==
    [][NotAdopted /\ poisoned = {} =>
        /\ UNCHANGED <<blockchain, unspent_tx_outs, transaction_pool, events>>
        /\ ~last'.panic
        /\ reader' = ReaderIdle
        /\ poisoned' = poisoned]_vars

\* C15 witness: the reader has turned down a chain while the node holds a
\* chain of two blocks, and is ready for the next message.
C15_ChainTurnedDown ==
    /\ last = Respond("receive_blockchain", FALSE, 0)
    /\ reader = ReaderIdle
    /\ Len(blockchain) = 2
    /\ poisoned = {}

\* C16: the nonce search never runs while its thread holds the guard of the
\* chain, the UTXO set or the mempool.
C16_NoMiningUnderLocks ==
    \A t \in Threads : worker[t].pc = "generate" => worker[t].held = <<>>

\* C16 witness: a mining handler is in its nonce search, past nonce 0.
C16_NonceSearchRunning ==
    \E t \in Threads :
        /\ worker[t].handler \in MiningHandlers
        /\ worker[t].pc = "generate"
        /\ worker[t].nonce > 0

\* chain, UTXO, mempool.
LockRank(l) ==
    CASE l = "blockchain" -> 1 [] l = "unspent_tx_outs" -> 2 [] l = "transaction_pool" -> 3

\* Thread t waits for a guard that thread u holds.
WaitsFor(t, u) ==
    /\ worker[t].pc = "lock"
    /\ guards[Head(worker[t].todo)] = u

\* C17: every thread that holds more than one guard took them in the order
\* chain, UTXO, mempool, and no two threads wait for each other's guard.
C17_LockOrderNoDeadlock ==
    /\ \A t \in Threads : \A i, j \in 1..Len(worker[t].held) :
           i < j => LockRank(worker[t].held[i]) < LockRank(worker[t].held[j])
    /\ \A t, u \in Threads : ~(t # u /\ WaitsFor(t, u) /\ WaitsFor(u, t))

\* C17 witness: mine_block holds the chain and UTXO guards while
\* send_transaction is in its handler.
C17_MineAndSendTogether ==
    /\ worker["http1"].handler = "mine_block"
    /\ worker["http1"].held = <<"blockchain", "unspent_tx_outs">>
    /\ worker["http2"].handler = "send_transaction"
    /\ worker["reader"].handler = "receive_transaction"

\* Two threads each hold a guard the other waits for.
C17_Deadlocked ==
    \E t, u \in Threads : t # u /\ WaitsFor(t, u) /\ WaitsFor(u, t)

\* The broker takes a Blockchain or a Transaction event from the channel.
HandlesSnapshot ==
    /\ Received("Blockchain") \/ Received("Transaction")
    /\ events' = Tail(events)

\* The peers whose connection is still up.
Connected == {q \in PeerIds : tasks[q] # "ended"}

\* C18: when the broker handles Blockchain(snapshot, except) or
\* Transaction(snapshot, except), every registered peer other than except
\* whose connection is up is written the serialized snapshot exactly once,
\* and except and the unregistered peers are written nothing.
C18_SnapshotOnceToAllButExcept ==
    [][HandlesSnapshot =>
        \A q \in PeerIds :
            IF q \in Registered /\ <<q>> # Head(events).except
            THEN q \in Connected =>
                     written'[q] = <<Payload_serialize(Head(events).type, Head(events).payload)>>
            ELSE written'[q] = <<>>]_vars

\* C18 witness: a snapshot that names a registered peer as except was
\* written to another registered peer and not to except.
C18_RelayedPastExcept ==
    /\ broker.handled.type \in {"Blockchain", "Transaction"}
    /\ broker.handled.except # <<>>
    /\ broker.handled.except[1] \in Registered
    /\ written[broker.handled.except[1]] = <<>>
    /\ \E q \in Registered : written[q] # <<>>

\* C19: when the dial of a Peer(url) event with a well-formed URL fails, no connection task is
\* started, no Join and no second Peer(url) enters the channel, and the
\* broker has not panicked: it goes on to the next event.
C19_FailedDialBrokerGoesOn ==
    [][/\ Received("Peer") /\ events' = Tail(events)
       /\ Url_parses(Head(events).payload) /\ ~broker'.connected
       =>
        /\ tasks' = tasks
        /\ connections' = connections
        /\ ~broker'.panicked]_vars

\* C19 witness: the dial of a well-formed URL failed.
C19_DialFailed ==
    /\ broker.handled.type = "Peer"
    /\ Url_parses(broker.handled.payload)
    /\ ~broker.connected

\* C20: whenever the task of a peer's connection has ended, by a close frame,
\* a stream error or a text frame that cannot be decoded, the broker
\* (unless it has itself panicked) eventually has no entry for that peer.
C20_EndedPeerRemoved ==
    \A q \in PeerIds :
        [](tasks[q] \in {"ended", "panicked"} =>
               <>(connections[q] = NoConnection \/ broker.panicked))

\* C20 witness: the task of a registered peer ended on a frame it could not
\* decode.
C20_ReaderEndedOnBadFrame ==
    \E q \in PeerIds : tasks[q] = "panicked" /\ connections[q] # NoConnection

\* C21: a text frame that receive cannot decode leaves the task of the
\* connection in its loop and the locks as they were: a task in its loop
\* stays there or leaves it by sending Quit, and no step that moves a
\* connection task poisons a lock.
C21_BadFrameCaught ==
    [][/\ \A q \in PeerIds : tasks[q] = "open" => tasks'[q] \in {"open", "ended"}
       /\ tasks' # tasks => poisoned' = poisoned]_vars

\* C21 witness: a connection task met a transaction list it could not decode
\* while another connection is in its loop.
C21_BadTransactionList ==
    /\ "transaction_pool" \in poisoned
    /\ \E q \in PeerIds : tasks[q] = "panicked"
    /\ \E q \in PeerIds : tasks[q] = "open"
    /\ last.op = "run"

LocalMutation ==
    \/ \E data \in RawData : mine_raw_block(data)
    \/ mine_block
    \/ \E amount \in Amounts : mine_transaction(PeerAddress, amount)
    \/ \E amount \in Amounts : send_transaction(PeerAddress, amount)

\* C23: a handler that succeeds puts exactly one event in the channel, with
\* except = None: Blockchain with the chain as it now is after a mining
\* handler, Transaction with the mempool as it now is after send_transaction;
\* a handler that fails puts none.
C23_OneEventPerMutation ==
    [][LocalMutation =>
         IF last'.panic \/ last'.err # 0 THEN events' = events
         ELSE IF last'.op = "send_transaction"
         THEN events' = Append(events, BroadcastEvents("Transaction", transaction_pool', <<>>))
         ELSE events' = Append(events, BroadcastEvents("Blockchain", blockchain', <<>>))]_vars

\* C23 witness: mine_block appended a block while a peer is registered with
\* the broker.
C23_MinedWithPeerRegistered ==
    /\ last = Respond("mine_block", FALSE, 0)
    /\ Len(blockchain) = 2
    /\ Registered # {}

\* The amounts of the first k entries, added as integers.
PrefixSum(unspent, k) == Sum([i \in 1..k |-> unspent[i].amount])

\* The lengths of the prefixes that cover the amount.
Covering(unspent, amount) == {k \in 1..Len(unspent) : PrefixSum(unspent, k) >= amount}

\* C24: find_tx_outs_for_amount returns the shortest prefix of my_unspent
\* whose amounts add up to at least amount, with change = sum - amount, and
\* returns error 2003 exactly when no prefix does (the amounts of all of
\* my_unspent are below amount, or my_unspent is empty).
C24_ShortestCoveringPrefix ==
    probe.fn = "find_tx_outs_for_amount" /\ probe.done =>
        LET expected(my_unspent, amount, covering) ==
                IF covering = {} THEN RErr(2003)
                ELSE ROk(<<SubSeq(my_unspent, 1, Min(covering)),
                           PrefixSum(my_unspent, Min(covering)) - amount>>)
        IN  probe.result = expected(probe.args[1], probe.args[2],
                                    Covering(probe.args[1], probe.args[2]))

\* C24 witness: the second of three outputs covered the amount.
C24_StoppedAtSecond ==
    /\ probe.fn = "find_tx_outs_for_amount" /\ probe.done
    /\ Len(probe.args[1]) = 3
    /\ probe.result.err = 0 /\ ~probe.result.panic
    /\ Len(probe.result.val[1]) = 2
    /\ probe.result.val[2] > 0

\* C25: a transaction create_transaction returns has inputs that are keys of
\* unspent outputs of the wallet's address, outputs [{receiver, amount}] with
\* change 0 and [{receiver, amount}, {wallet, change}] otherwise, input
\* amounts that add up to amount + change, and is valid for
\* get_is_valid_transaction against the same unspent outputs.
C25_CreatedTransactionValid ==
    probe.fn = "create_transaction" /\ probe.done
    /\ ~probe.result.panic /\ probe.result.err = 0 =>
        LET created(tx, receiver, amount, unspent) ==
                LET paid == Sum([i \in 1..Len(tx.tx_ins) |->
                                    get_tx_in_amount(tx.tx_ins[i], unspent)])
                IN  /\ \A i \in 1..Len(tx.tx_ins) :
                        \E e \in Referenced(tx.tx_ins[i], unspent) :
                            unspent[e].address = wallet.public_key
                    /\ paid >= amount
                    /\ tx.tx_outs = IF paid = amount THEN <<TxOut(receiver, amount)>>
                                    ELSE <<TxOut(receiver, amount),
                                           TxOut(wallet.public_key, paid - amount)>>
                    /\ get_is_valid_transaction(tx, unspent, overflow_checks) = Ok(TRUE)
        IN  created(probe.result.val, probe.args[1], probe.args[2], probe.args[3])

\* C25 witness: a transfer with change, paid from two outputs of the wallet
\* out of a set that also holds an output of the peer.
C25_TransferWithChange ==
    /\ probe.fn = "create_transaction" /\ probe.done
    /\ ~probe.result.panic /\ probe.result.err = 0
    /\ Len(probe.result.val.tx_ins) = 2
    /\ Len(probe.result.val.tx_outs) = 2
    /\ \E i \in 1..Len(probe.args[3]) : probe.args[3][i].address = PeerAddress

\* Values for the signature field of an input: empty, and signatures of
\* either key over either of two messages.
SomeSignatures ==
    {<<>>} \cup {sign_ecdsa(m, k) : m \in {genesis_transaction.id, Sha256(Dec(1))},
                                    k \in {WalletKey, PeerKey}}

\* The inputs with their signatures replaced by those of sigs.
Resigned(tx_ins, sigs) ==
    [i \in 1..Len(tx_ins) |-> TxIn(tx_ins[i].tx_out_id, tx_ins[i].tx_out_index, sigs[i])]

\* C26: the transaction id is the same whatever the signatures of the inputs
\* are, and the id create_transaction computed before signing is the id
\* recomputed from the signed transaction.
C26_IdInvariantUnderSigning ==
    /\ probe.fn = "get_transaction_id" /\ probe.done =>
        \A sigs \in [1..Len(probe.args[1]) -> SomeSignatures] :
            get_transaction_id(Resigned(probe.args[1], sigs), probe.args[2]) = probe.result
    /\ probe.fn = "create_transaction" /\ probe.done
       /\ ~probe.result.panic /\ probe.result.err = 0 =>
        get_transaction_id(probe.result.val.tx_ins, probe.result.val.tx_outs)
            = probe.result.val.id

\* C26 witness: the id of a transaction whose input carries a signature was
\* computed.
C26_IdOfSignedTransaction ==
    /\ probe.fn = "get_transaction_id" /\ probe.done
    /\ \E i \in 1..Len(probe.args[1]) : IsSignature(probe.args[1][i].signature)

\* balance(address): the amounts of the unspent outputs at the address, added
\* as integers.
Balance(address, unspent) ==
    Sum([i \in 1..Len(SelectSeq(unspent, LAMBDA u : u.address = address)) |->
            SelectSeq(unspent, LAMBDA u : u.address = address)[i].amount])

\* C27: when mine_transaction appends its block for a transfer of amount a to
\* the peer's address, the peer's balance has grown by a and the wallet's
\* balance by 50 - a.
C27_BalancesAfterMineTransaction ==
    [][\A a \in Amounts :
           mine_transaction(PeerAddress, a) /\ last' = Respond("mine_transaction", FALSE, 0)
           => /\ Balance(PeerAddress, unspent_tx_outs')
                     = Balance(PeerAddress, unspent_tx_outs) + a
              /\ Balance(wallet.public_key, unspent_tx_outs')
                     = Balance(wallet.public_key, unspent_tx_outs) + COINBASE_AMOUNT - a]_vars

\* C27 witness: mine_transaction appended a block whose transfer left change:
\* the peer holds 20 and the wallet 80.
C27_TransferMinedWithChange ==
    /\ last = Respond("mine_transaction", FALSE, 0)
    /\ Len(blockchain) = 3
    /\ Balance(PeerAddress, unspent_tx_outs) = 20
    /\ Balance(wallet.public_key, unspent_tx_outs) = 2 * COINBASE_AMOUNT - 20

\* The (tx_out_id, tx_out_index) keys of a list of unspent outputs.
Key(u_tx_o) == <<u_tx_o.tx_out_id, u_tx_o.tx_out_index>>

UniqueKeys(unspent) ==
    \A i, j \in 1..Len(unspent) : Key(unspent[i]) = Key(unspent[j]) => i = j

\* C28: in every reachable state no two entries of the UTXO set have the same
\* (tx_out_id, tx_out_index).
C28_UnspentKeysUnique == UniqueKeys(unspent_tx_outs)

\* C28 witness: a block with a spending transaction was applied: an entry was
\* removed and the outputs of two transactions were added.
C28_BlockAppliedWithSpend ==
    /\ last = Respond("mine_transaction", FALSE, 0)
    /\ Len(unspent_tx_outs) = 4
    /\ UniqueKeys(unspent_tx_outs)

\* The output amounts of a transaction, added as integers, do not fit the
\* integer width.
OutputsOverflow(tx) ==
    Sum([i \in 1..Len(tx.tx_outs) |-> tx.tx_outs[i].amount]) >= U64Mod

\* C29: a block that carries a transaction whose output amounts overflow when
\* summed is refused with an error: the handler does not panic, and the chain,
\* the unspent outputs and the pool are unchanged.
C29_OverflowingSumRejected ==
    [][\A data \in RawData :
           /\ mine_raw_block(data)
           /\ \E i \in 1..Len(data) : OutputsOverflow(data[i])
           => /\ ~last'.panic
              /\ last'.err # 0
              /\ UNCHANGED <<blockchain, unspent_tx_outs, transaction_pool>>]_vars

\* C29 witness: the chain holds a block with a transaction whose outputs sum
\* to 2^64.
C29_WrappedSumAccepted ==
    \E i \in 1..Len(blockchain) : \E j \in 1..Len(blockchain[i].data) :
        OutputsOverflow(blockchain[i].data[j])

\* C29 witness of the other build: the handler panicked on the sum.
C29_SumAborted ==
    /\ overflow_checks
    /\ last = Respond("mine_raw_block", TRUE, 0)
    /\ Len(blockchain) = 1

\* The blocks that differ from block in its index, its previous_hash, its data
\* or its timestamp alone.
Tampered(block, previous) ==
    { [block EXCEPT !.index = i] : i \in (0..3) \ {block.index} }
    \cup { [block EXCEPT !.previous_hash = h] :
             h \in { <<>>, Sha256(Dec(9)), block.hash } \ {block.previous_hash} }
    \cup { [block EXCEPT !.data = d] :
             d \in { <<>>, <<PeerCoinbase(1)>>, <<Transaction_generate(<<>>, <<>>)>> }
                   \ {block.data} }
    \cup { [block EXCEPT !.timestamp = t] :
             t \in { 0, TIMESTAMP_INTERVAL - 1, block.timestamp - 1, block.timestamp + 1,
                     previous.timestamp + TIMESTAMP_INTERVAL + 1 } \ {block.timestamp} }

\* C30: Block::generate(data, previous, difficulty) returns the block with
\* index previous.index + 1, previous_hash = previous.hash, the given data and
\* difficulty and the smallest nonce, counting up from 0, whose hash meets the
\* difficulty; the block passes get_is_valid_new_block against previous, and
\* with its index, previous_hash, data or timestamp changed it does not.
C30_GeneratedBlockValid ==
    probe.fn = "Block_generate" /\ probe.done =>
        LET data == probe.args[1]
            previous == probe.args[2]
            difficulty == probe.args[3]
            block == probe.result
            hash(n) == calculate_hash(previous.index + 1, previous.hash, block.timestamp,
                                      data, difficulty, n)
        IN  /\ block.index = previous.index + 1
            /\ block.previous_hash = previous.hash
            /\ block.data = data
            /\ block.difficulty = difficulty
            /\ block.hash = hash(block.nonce)
            /\ get_is_hash_matches_difficulty(block.hash, difficulty)
            /\ \A n \in 0..(block.nonce - 1) : ~get_is_hash_matches_difficulty(hash(n), difficulty)
            /\ get_is_valid_new_block(block, previous, now, overflow_checks) = Ok(TRUE)
            /\ \A changed \in Tampered(block, previous) :
                   get_is_valid_new_block(changed, previous, now, overflow_checks) = Ok(FALSE)

\* C30 witness: generate returned a block at a nonce above 0: the hashes of
\* the nonces below it miss the difficulty.
C30_GeneratedAboveNonceZero ==
    /\ probe.fn = "Block_generate"
    /\ probe.done
    /\ probe.result.nonce > 0
    /\ probe.result.difficulty > 0

\* What the reader is to do with a received list: every transaction, in list
\* order, is admitted when it passes validate_tx against the unspent outputs
\* and shares no input with the pool; an admitted one is followed by
\* Transaction(pool, Some(peer)), a rejected one changes nothing.
RECURSIVE Offered(_, _, _, _)
Offered(received, pool, unspent, sent) ==
    IF received = <<>> THEN [pool |-> pool, events |-> sent]
    ELSE IF /\ validate_tx(Head(received), unspent)
            /\ \A i \in 1..Len(pool) : ~ShareInput(pool[i], Head(received))
    THEN Offered(Tail(received), Append(pool, Head(received)), unspent,
                 Append(sent, BroadcastEvents("Transaction", Append(pool, Head(received)),
                                              <<Peer>>)))
    ELSE Offered(Tail(received), pool, unspent, sent)

\* C31: on a Transaction message the reader offers every received transaction,
\* in list order, to the mempool against the current unspent outputs: a
\* rejected one leaves the pool as it is and the following ones are still
\* processed, and one Transaction(snapshot, except = sender) event is emitted
\* per accepted transaction.
C31_EveryReceivedTransactionOffered ==
    [][add_received_transactions
       => /\ ~last'.panic
          /\ transaction_pool' = Offered(reader.received, transaction_pool,
                                         unspent_tx_outs, events).pool
          /\ events' = Offered(reader.received, transaction_pool,
                               unspent_tx_outs, events).events]_vars

\* C31 witness: of a received list of two the first transaction was rejected
\* and the second admitted and announced to all but the sender.
C31_SecondOfTwoAdmitted ==
    /\ last = Respond("add_received_transactions", FALSE, 0)
    /\ transaction_pool = <<SpendGenesisTx>>
    /\ events = <<BroadcastEvents("Transaction", <<SpendGenesisTx>>, <<Peer>>)>>

\* No event waits in a channel and no frame on a connection.
Quiet ==
    /\ \A n \in Nodes : channels[n] = <<>>
    /\ \A w \in Wires : wires[w] = <<>>

NetworkWork(n) == accumulated_work(nodes[n].blockchain)

Split(v) == <<v \div 65536, v % 65536>>
Pow2Split(d) == IF d < 16 THEN <<0, 2 ^ d>> ELSE <<2 ^ (d - 16), 0>>

RECURSIVE SplitSum(_)
SplitSum(chain) ==
    IF chain = <<>> THEN <<0, 0>>
    ELSE <<Pow2Split(Head(chain).difficulty)[1] + SplitSum(Tail(chain))[1],
           Pow2Split(Head(chain).difficulty)[2] + SplitSum(Tail(chain))[2]>>

\* The sum of 2^difficulty over the blocks of the chain, exactly.
ExactWork(chain) ==
    <<SplitSum(chain)[1] + SplitSum(chain)[2] \div 65536, SplitSum(chain)[2] % 65536>>

\* C33: get_accumulated_difficulty(chain) is the exact sum of 2^difficulty
\* over every block of the chain, for every difficulty a block can carry, 31
\* and above included: it neither wraps nor aborts.
C33_AccumulatedDifficultyExact ==
    probe.fn = "get_accumulated_difficulty" /\ probe.done =>
        /\ ~probe.result.panic
        /\ probe.result.val >= 0
        /\ Split(probe.result.val) = ExactWork(probe.args[1])

\* C33 witness: the chain of a difficulty-0 block and two difficulty-2 blocks
\* has been summed to 9.
C33_TwoBlocksOfDifficultyTwo ==
    /\ probe.fn = "get_accumulated_difficulty" /\ probe.done
    /\ Len(probe.args[1]) = 3
    /\ probe.args[1][1].difficulty = 0
    /\ probe.args[1][2].difficulty = 2
    /\ probe.args[1][3].difficulty = 2
    /\ probe.result = Ok(9)

\* The largest difficulty a block of the chain carries.
MaxDifficultyOf(chain) ==
    CHOOSE d \in {chain[i].difficulty : i \in 1..Len(chain)} :
        \A i \in 1..Len(chain) : chain[i].difficulty <= d

\* C34: get_difficulty never underflows: also at a retarget height where
\* prev.difficulty is 0 and the last 10 blocks took more than 200 seconds, and
\* where the latest timestamp is smaller than prev.timestamp, it returns a
\* difficulty that is at most one above a difficulty of the chain.
C34_DifficultyNeverUnderflows ==
    probe.fn = "get_difficulty" /\ probe.done =>
        /\ ~probe.result.panic
        /\ probe.result.val >= 0
        /\ probe.result.val <= MaxDifficultyOf(probe.args[1]) + 1

\* C34 witness: get_difficulty has returned at a retarget height where
\* prev.difficulty is 0 and the last 10 blocks took 201 seconds.
C34_SlowBlocksAtDifficultyZero ==
    /\ probe.fn = "get_difficulty" /\ probe.done
    /\ Len(probe.args[1]) = DIFFICULTY_ADJUSTMENT_INTERVAL + 1
    /\ probe.args[1][2].difficulty = 0
    /\ probe.args[1][Len(probe.args[1])].timestamp = probe.args[1][2].timestamp + 201

\* C35: in every reachable state the block that mine-block builds from the
\* chain and the mempool (the coinbase followed by every pool transaction) is
\* accepted by add_block.
C35_MineBlockAccepted ==
    LET added(generated) ==
            /\ ~generated.panic
            /\ generated.err = 0
            /\ add_block(blockchain, unspent_tx_outs, transaction_pool, generated.val, now,
                         overflow_checks).panic = FALSE
            /\ add_block(blockchain, unspent_tx_outs, transaction_pool, generated.val, now,
                         overflow_checks).err = 0
    IN  added(Block_generate_with_coinbase_transaction(blockchain, transaction_pool, wallet,
                                                       now, overflow_checks))

\* C35 witness: the mempool holds a transaction and the block mine-block
\* builds from it is accepted.
C35_PoolMinedIntoBlock ==
    /\ transaction_pool = <<SpendGenesisTx>>
    /\ C35_MineBlockAccepted

\* C35, the transaction of the claim: the mempool holds a transaction that
\* lists the same unspent output twice.
C35_TwiceInPool == \E i \in 1..Len(transaction_pool) : transaction_pool[i] = TwiceTx

\* An input of a transaction of the block behind the coinbase references the
\* exact key of the entry and carries a signature over the transaction's id
\* that verifies under the entry's address.
SpentByOwner(entry, data) ==
    \E j \in 2..Len(data) : \E i \in 1..Len(data[j].tx_ins) :
        /\ data[j].tx_ins[i].tx_out_id = entry.tx_out_id
        /\ data[j].tx_ins[i].tx_out_index = entry.tx_out_index
        /\ IsSignature(data[j].tx_ins[i].signature)
        /\ verify_ecdsa(data[j].id, data[j].tx_ins[i].signature, entry.address)

\* C36: an entry leaves the unspent outputs when a block is applied only if
\* an input of a non-coinbase transaction of the block references its exact
\* key with a signature that verifies under the entry's address; the coinbase
\* transaction removes no entry.
C36_RemovedOnlyByOwner ==
    probe.fn = "process_transactions" /\ probe.done
    /\ ~probe.result.panic /\ probe.result.err = 0 =>
        \A e \in 1..Len(probe.args[2]) :
            (\A k \in 1..Len(probe.result.val) : probe.result.val[k] # probe.args[2][e])
            => SpentByOwner(probe.args[2][e], probe.args[1])

\* C36 witness: a block in which the wallet spends its own output has been
\* applied: the output is gone, the coinbase and the transfer are credited.
C36_OwnerSpent ==
    /\ probe.fn = "process_transactions" /\ probe.done
    /\ probe.args[1] = <<PeerCoinbase(1), OwnerSpendTx>>
    /\ ~probe.result.panic /\ probe.result.err = 0
    /\ Len(probe.result.val) = 4

\* The amounts of all unspent outputs, added as integers.
Supply(unspent) == Sum([i \in 1..Len(unspent) |-> unspent[i].amount])

\* C37: in every reachable state the sum of all amounts in the UTXO set is 50
\* times the number of blocks of the chain, the genesis block included.
C37_SupplyIsFiftyPerBlock ==
    Supply(unspent_tx_outs) = COINBASE_AMOUNT * Len(blockchain)

\* C37 witness: after a transfer with change was mined into the third block
\* the unspent outputs add up to 150.
C37_ThreeBlocksWithTransfer ==
    /\ last = Respond("mine_transaction", FALSE, 0)
    /\ Len(blockchain) = 3
    /\ Len(unspent_tx_outs) > 3
    /\ Supply(unspent_tx_outs) = 3 * COINBASE_AMOUNT

\* C38: a remote chain is adopted only if its first block is identical to
\* the local genesis block in every field, difficulty and nonce included.
C38_AdoptedChainHasSameGenesis ==
    [][replace_blockchain /\ blockchain' # blockchain
       => blockchain'[1] = blockchain[1]]_vars

\* C38 witness: the chain whose only block is the genesis block with
\* difficulty 1 has been received and the reader went on to replace the chain.
C38_OtherDifficultyGenesisReceived ==
    /\ reader.pc = "replace"
    /\ reader.new_blockchain = <<GenesisPrime>>
    /\ blockchain = <<genesis_block>>

\* The Join of connect task d was sent and is no longer in the channel: the
\* broker has processed it.
JoinProcessed(d) ==
    /\ dials[d].join
    /\ \A i \in 1..Len(events) :
          ~(events[i].type = "Join" /\ events[i].payload.connector = <<d>>)

\* C39: a connection whose reader is running and whose Join has been
\* processed is the entry of its peer id in the broker's map: the Join or the
\* Quit of another connection with the same peer id neither replaces nor
\* unregisters it.
C39_RunningConnectionStaysRegistered ==
    \A d \in 1..Len(dials) :
        dials[d].state = "open" /\ JoinProcessed(d)
        => connections[dials[d].peer].connector = <<d>>

\* C39 witness: the same URL was dialled twice, both connect tasks run and
\* both Joins have been processed.
C39_SameUrlDialledTwice ==
    /\ Len(dials) = 2
    /\ dials[1].peer = dials[2].peer
    /\ dials[1].state = "open" /\ JoinProcessed(1)
    /\ dials[2].state = "open" /\ JoinProcessed(2)

\* A registered peer whose reader has ended and whose Quit is still in the
\* channel.
DeadPeers ==
    {q \in Registered :
        /\ tasks[q] = "ended"
        /\ \E i \in 1..Len(events) : events[i].type = "Quit" /\ events[i].payload = q}

\* C40: when the broker fans out a Blockchain or Transaction event while a
\* peer whose socket closed is still registered (its Quit is behind the event
\* in the channel), the broker does not stop: it has not panicked, so it
\* keeps taking events, and every other registered peer whose connection is
\* up, except the event's `except`, is sent the frame.
C40_DeadPeerDoesNotStopGossip ==
    [][HandlesSnapshot /\ DeadPeers # {} =>
        /\ ~broker'.panicked
        /\ \A q \in (Registered \cap Connected) \ DeadPeers :
               <<q>> # Head(events).except =>
                   written'[q] = <<Payload_serialize(Head(events).type, Head(events).payload)>>]_vars

\* C40 witness: a snapshot was fanned out while a dead peer and a live peer
\* were both registered, and the dead peer's Quit is still in the channel.
C40_FannedOutPastDeadPeer ==
    /\ broker.handled.type \in {"Blockchain", "Transaction"}
    /\ DeadPeers # {}
    /\ \E r \in Registered : tasks[r] = "open"

====
